---- MODULE Spec2Model ----
(***************************************************************************)
(* Verification model of openapi-effect: the generated petstore            *)
(* dispatchers (generated/dispatch.ts), the strict executor and its        *)
(* helpers (shell/api-client/strict-client.ts) and the type-level 2xx      *)
(* classification (core/api-client/strict-types.ts).                       *)
(*                                                                         *)
(* Strings that the code inspects are modelled as sequences of tokens:     *)
(* a content-type header value is the concatenation of its tokens, a       *)
(* response text is the concatenation of its JSON tokens.                  *)
(***************************************************************************)
EXTENDS Integers, Sequences, FiniteSets, TLC

VARIABLES
  pc,          \* position of the request: "idle", "sent", "responded", "received", "done"
  op,          \* operation whose dispatcher the request carries
  httpResponse, \* HttpClientResponse delivered by client.execute (status, headers)
  thrown,      \* what client.execute or response.text failed with, if it did
  rawResponse, \* RawResponse built by executeRequest (status, headers, text)
  result,      \* Effect exit of executeRequest: channel + value
  steps,       \* what the dispatcher ran for this request (parse / decode)
  typeStatus,  \* status key S handed to the type-level Is2xx<S>
  typeVariant, \* variant family Is2xx<S> selects for S
  defaultDispatchers, \* module-level registry of create-client.ts
  registered,  \* arguments of the registerDefaultDispatchers calls made so far
  client,      \* outcome of createClient: the client's dispatcher map, or the throw
  call,        \* (path, method) of the client call in progress
  fibers,      \* concurrent invocations of one dispatcher: locals of each
  exposed,     \* exit of a createClientEffect call, after exposeHttpErrorsAsValues
  globalMiddlewares,    \* middleware list of the promise client (use / eject)
  phase,                \* position of the promise-client call in createCoreFetchEffect
  fetchOptions,         \* method, parseAs and request-level middleware of the call
  middlewares,          \* mergeMiddlewares(globalMiddlewares, fetchOptions.middleware)
  hookIndex,            \* middleware whose hook runs next
  fetchRequest,         \* current Request
  shortCircuitResponse, \* Response returned by an onRequest hook, if any
  fetchResponse,        \* current Response
  currentError,         \* current fetch error while the onError hooks run
  envelope,             \* what the promise of the call settles with
  hookLog,              \* hook and fetch invocations of the call, in order
  controls              \* the use / eject calls made on the promise client so far

executorVars == <<pc, op, httpResponse, thrown, rawResponse, result, steps>>
typeVars == <<typeStatus, typeVariant>>
registryVars == <<defaultDispatchers, registered, client, call>>
fiberVars == <<fibers>>
effectVars == <<exposed>>
callVars == <<phase, fetchOptions, middlewares, hookIndex, fetchRequest, shortCircuitResponse,
              fetchResponse, currentError, envelope, hookLog>>
fetchVars == <<globalMiddlewares, callVars>>
controlVars == <<controls>>

\* what the steps of each part of the program leave alone
notExecutor == <<typeVars, registryVars, fiberVars, effectVars, fetchVars, controlVars>>
notClient == <<typeVars, fiberVars, effectVars, fetchVars, controlVars>>
notTypes == <<executorVars, registryVars, fiberVars, effectVars, fetchVars, controlVars>>
notFibers == <<pc, httpResponse, thrown, rawResponse, result, steps, typeVars, registryVars, effectVars,
              fetchVars, controlVars>>
notEffect == <<typeVars, registryVars, fiberVars, fetchVars, controlVars>>
notFetch == <<executorVars, typeVars, registryVars, fiberVars, effectVars, controlVars>>

vars == <<executorVars, typeVars, registryVars, fiberVars, effectVars, fetchVars, controlVars>>

(***************************************************************************)
(* Bounds                                                                  *)
(***************************************************************************)
MaxHeaderLen == 2      \* tokens in a content-type header value
MaxStatusKey == 599    \* largest HTTP status code given to Is2xx
MaxRegistrations == 2  \* calls of registerDefaultDispatchers in a run
NumFibers == 2         \* concurrent invocations of one dispatcher

(***************************************************************************)
(* Input domains                                                           *)
(***************************************************************************)
Operations == {"listPets", "createPet", "getPet", "deletePet"}

Statuses == {199, 200, 201, 204, 250, 299, 300, 400, 404, 418, 500, 503}

JsonType == "application/json"

\* "application/json" \o "-seq" is the media type application/json-seq
HeaderTokens == {"application/json", "text/html", ";", " charset=utf-8", "-seq"}

\* string | undefined
UndefinedString == [present |-> FALSE, value |-> <<>>]
DefinedString(v) == [present |-> TRUE, value |-> v]

\* Headers: a map from lower-cased header names to values
NoHeaders == [n \in {} |-> <<>>]

SeqsUpTo(S, n) == UNION {[1..k -> S] : k \in 0..n}

\* response.headers of the platform response: a record of strings
PlatformHeaders ==
  {NoHeaders} \cup {[n \in {"content-type"} |-> v] : v \in SeqsUpTo(HeaderTokens, MaxHeaderLen)}

\* headers.set(key, value): a Headers object strips the leading and trailing
\* whitespace of a value (no token ends with whitespace)
NormalizeValue(v) ==
  IF v # <<>> /\ Head(v) = " charset=utf-8" THEN <<"charset=utf-8">> \o Tail(v) ELSE v

\* toNativeHeaders: new Headers() filled with headers.set(key, value) for
\* every entry (the names of the model are lower-case already)
toNativeHeaders(platformHeaders) ==
  [n \in DOMAIN platformHeaders |-> NormalizeValue(platformHeaders[n])]

\* the Headers objects a RawResponse can carry
ResponseHeaders == {toNativeHeaders(h) : h \in PlatformHeaders}

\* JSON tokens of a response text
P(s) == [k |-> "punct", s |-> s]
Str(s) == [k |-> "str", s |-> s]
Num(s) == [k |-> "num", s |-> s]
Null == [k |-> "null", s |-> "null"]
Junk(s) == [k |-> "junk", s |-> s]

PetText ==
  <<P("{"), Str("id"), P(":"), Str("42"), P(","), Str("name"), P(":"), Str("Buddy"), P(","),
    Str("tag"), P(":"), Str("dog"), P("}")>>
CreatedPetText ==
  <<P("{"), Str("id"), P(":"), Str("123"), P(","), Str("name"), P(":"), Str("Rex"), P("}")>>
ErrorText ==
  <<P("{"), Str("code"), P(":"), Num("404"), P(","), Str("message"), P(":"),
    Str("Pet not found"), P("}")>>
PetsText ==
  <<P("["), P("{"), Str("id"), P(":"), Str("1"), P(","), Str("name"), P(":"), Str("Fluffy"), P("}"),
    P(","), P("{"), Str("id"), P(":"), Str("2"), P(","), Str("name"), P(":"), Str("Spot"), P("}"),
    P("]")>>
EmptyArrayText == <<P("["), P("]")>>
MissingNameText == <<P("{"), Str("id"), P(":"), Str("42"), P("}")>>
BadTagText == <<P("{"), Str("id"), P(":"), Str("42"), P(","), Str("name"), P(":"), Str("Buddy"),
                P(","), Str("tag"), P(":"), Null, P("}")>>
NumberText == <<Num("404")>>
NullText == <<Null>>
NotValidText == <<P("{"), Junk("not valid")>>
EmptyText == <<>>
HtmlText == <<Junk("<html>error</html>")>>
TrailingCommaText == <<P("[")>> \o PetText \o <<P(","), P("]")>>
TrailingJunkText == ErrorText \o <<P("}")>>

Texts ==
  {PetText, CreatedPetText, ErrorText, PetsText, EmptyArrayText, MissingNameText, BadTagText,
   NumberText, NullText, NotValidText, EmptyText, HtmlText, TrailingCommaText, TrailingJunkText}

(***************************************************************************)
(* Effect exits                                                            *)
(***************************************************************************)
Succeed(v) == [channel |-> "success", value |-> v]
Fail(e) == [channel |-> "error", value |-> e]
Die(d) == [channel |-> "defect", value |-> d]

Undefined == [t |-> "undefined"]

\* Success records carry no _tag; every failure record carries one
TagOf(v) == IF "_tag" \in DOMAIN v THEN v._tag ELSE "Success"

\* createClient() of the promise client: no middleware, no call made yet
InitFetch ==
  /\ globalMiddlewares = <<>>
  /\ phase = "idle"
  /\ fetchOptions = Undefined
  /\ middlewares = <<>>
  /\ hookIndex = 0
  /\ fetchRequest = Undefined
  /\ shortCircuitResponse = Undefined
  /\ fetchResponse = Undefined
  /\ currentError = Undefined
  /\ envelope = Undefined
  /\ hookLog = <<>>
  /\ controls = <<>>

(***************************************************************************)
(* String.prototype.includes on token sequences                            *)
(***************************************************************************)
Includes(hay, needle) ==
  \E i \in 1..(Len(hay) + 1) :
    /\ i + Len(needle) - 1 <= Len(hay)
    /\ SubSeq(hay, i, i + Len(needle) - 1) = needle

\* contentType?.includes("application/json")
IncludesJson(contentType) == contentType.present /\ Includes(contentType.value, <<JsonType>>)

(***************************************************************************)
(* JSON.parse over the tokens of the text                                  *)
(***************************************************************************)
SyntaxError == [ok |-> FALSE]
Parsed(v, n) == [ok |-> TRUE, val |-> v, next |-> n]

IsPunct(toks, i, s) == i <= Len(toks) /\ toks[i] = P(s)

RECURSIVE ParseValue(_, _), ParseElements(_, _, _), ParseMembers(_, _, _)
ParseValue(toks, i) ==
  IF i > Len(toks) THEN SyntaxError
  ELSE LET tk == toks[i] IN
    CASE tk.k = "null" -> Parsed([t |-> "null"], i + 1)
      [] tk.k = "str" -> Parsed([t |-> "str", v |-> tk.s], i + 1)
      [] tk.k = "num" -> Parsed([t |-> "num", v |-> tk.s], i + 1)
      [] tk = P("[") ->
           IF IsPunct(toks, i + 1, "]") THEN Parsed([t |-> "arr", v |-> <<>>], i + 2)
           ELSE ParseElements(toks, i + 1, <<>>)
      [] tk = P("{") ->
           IF IsPunct(toks, i + 1, "}") THEN Parsed([t |-> "obj", v |-> <<>>], i + 2)
           ELSE ParseMembers(toks, i + 1, <<>>)
      [] OTHER -> SyntaxError

ParseElements(toks, i, acc) ==
  LET r == ParseValue(toks, i) IN
    IF ~r.ok THEN SyntaxError
    ELSE IF IsPunct(toks, r.next, ",") THEN ParseElements(toks, r.next + 1, Append(acc, r.val))
    ELSE IF IsPunct(toks, r.next, "]") THEN Parsed([t |-> "arr", v |-> Append(acc, r.val)], r.next + 1)
    ELSE SyntaxError

ParseMembers(toks, i, acc) ==
  IF ~(i <= Len(toks) /\ toks[i].k = "str" /\ IsPunct(toks, i + 1, ":")) THEN SyntaxError
  ELSE LET key == toks[i].s
           r == ParseValue(toks, i + 2)
           put == [f \in (DOMAIN acc) \cup {key} |-> IF f = key THEN r.val ELSE acc[f]]
       IN IF ~r.ok THEN SyntaxError
          ELSE IF IsPunct(toks, r.next, ",") THEN ParseMembers(toks, r.next + 1, put)
          ELSE IF IsPunct(toks, r.next, "}") THEN Parsed([t |-> "obj", v |-> put], r.next + 1)
          ELSE SyntaxError

JsonParse(text) ==
  LET r == ParseValue(text, 1) IN
    IF r.ok /\ r.next = Len(text) + 1 THEN [ok |-> TRUE, val |-> r.val] ELSE SyntaxError

(***************************************************************************)
(* strict-client helpers                                                   *)
(***************************************************************************)
unexpectedStatus(status, body) ==
  [_tag |-> "UnexpectedStatus", status |-> status, body |-> body]

unexpectedContentType(status, expected, actual, body) ==
  [_tag |-> "UnexpectedContentType", status |-> status, expected |-> expected,
   actual |-> actual, body |-> body]

\* mutant: the ParseError does not keep the raw text
parseJSON_LosesBody(status, contentType, text) ==
  LET r == JsonParse(text) IN
    IF r.ok THEN Succeed(r.val)
    ELSE Fail([_tag |-> "ParseError", status |-> status, contentType |-> contentType,
               error |-> "SyntaxError", body |-> <<>>])

\* mutant: JSON.parse called outside Effect.try, its throw is a defect
parseJSON_Uncaught(status, contentType, text) ==
  LET r == JsonParse(text) IN
    IF r.ok THEN Succeed(r.val) ELSE Die("SyntaxError")

\* Effect.try around JSON.parse: a throw becomes a ParseError failure
parseJSON(status, contentType, text) ==
  LET r == JsonParse(text) IN
    IF r.ok THEN Succeed(r.val)
    ELSE Fail([_tag |-> "ParseError", status |-> status, contentType |-> contentType,
               error |-> "SyntaxError", body |-> text])

(***************************************************************************)
(* Decoders of the petstore schema (generated/decoders.ts)                 *)
(***************************************************************************)
HasField(v, f, ty) == f \in DOMAIN v.v /\ v.v[f].t = ty

IsPet(v) ==
  /\ v.t = "obj"
  /\ HasField(v, "id", "str")
  /\ HasField(v, "name", "str")
  /\ ("tag" \in DOMAIN v.v => v.v["tag"].t = "str")

IsPetList(v) == v.t = "arr" /\ \A i \in DOMAIN v.v : IsPet(v.v[i])

IsError(v) == v.t = "obj" /\ HasField(v, "code", "num") /\ HasField(v, "message", "str")

decodeError(status, contentType, body) ==
  [_tag |-> "DecodeError", status |-> status, contentType |-> contentType,
   error |-> "shape", body |-> body]

DecodeAs(accepts, status, contentType, body, parsed) ==
  IF accepts THEN Succeed(parsed) ELSE Fail(decodeError(status, contentType, body))

decodelistPets_200(s, ct, body, parsed) == DecodeAs(IsPetList(parsed), s, ct, body, parsed)
decodelistPets_500(s, ct, body, parsed) == DecodeAs(IsError(parsed), s, ct, body, parsed)
decodecreatePet_201(s, ct, body, parsed) == DecodeAs(IsPet(parsed), s, ct, body, parsed)
decodecreatePet_400(s, ct, body, parsed) == DecodeAs(IsError(parsed), s, ct, body, parsed)
decodecreatePet_500(s, ct, body, parsed) == DecodeAs(IsError(parsed), s, ct, body, parsed)
decodegetPet_200(s, ct, body, parsed) == DecodeAs(IsPet(parsed), s, ct, body, parsed)
decodegetPet_404(s, ct, body, parsed) == DecodeAs(IsError(parsed), s, ct, body, parsed)
decodegetPet_500(s, ct, body, parsed) == DecodeAs(IsError(parsed), s, ct, body, parsed)
decodedeletePet_404(s, ct, body, parsed) == DecodeAs(IsError(parsed), s, ct, body, parsed)
decodedeletePet_500(s, ct, body, parsed) == DecodeAs(IsError(parsed), s, ct, body, parsed)

(***************************************************************************)
(* Generated dispatchers (generated/dispatch.ts).  A classification is the *)
(* Effect exit together with the steps the Effect.gen body ran.            *)
(***************************************************************************)
Ran(exit, ran) == [exit |-> exit, ran |-> ran]

\* the decoder a clause passes to its helper, applied by reference
ApplyDecoder(decoder, s, ct, body, parsed) ==
  CASE decoder = "decodelistPets_200" -> decodelistPets_200(s, ct, body, parsed)
    [] decoder = "decodelistPets_500" -> decodelistPets_500(s, ct, body, parsed)
    [] decoder = "decodecreatePet_201" -> decodecreatePet_201(s, ct, body, parsed)
    [] decoder = "decodecreatePet_400" -> decodecreatePet_400(s, ct, body, parsed)
    [] decoder = "decodecreatePet_500" -> decodecreatePet_500(s, ct, body, parsed)
    [] decoder = "decodegetPet_200" -> decodegetPet_200(s, ct, body, parsed)
    [] decoder = "decodegetPet_404" -> decodegetPet_404(s, ct, body, parsed)
    [] decoder = "decodegetPet_500" -> decodegetPet_500(s, ct, body, parsed)
    [] decoder = "decodedeletePet_404" -> decodedeletePet_404(s, ct, body, parsed)
    [] decoder = "decodedeletePet_500" -> decodedeletePet_500(s, ct, body, parsed)

SuccessRecord(status, body) ==
  Succeed([status |-> status, contentType |-> JsonType, body |-> body])

\* mutant: the failure record is built without the _tag discriminator
HttpErrorRecord_Untagged(status, body) ==
  Fail([status |-> status, contentType |-> JsonType, body |-> body])

HttpErrorRecord(status, body) ==
  Fail([_tag |-> "HttpError", status |-> status, contentType |-> JsonType, body |-> body])

\* Effect.gen: parseJSON, then the decoder, each yield* short-circuiting on
\* failure, then the success record
processJsonContentSuccess(status, contentType, text, decoder) ==
  IF IncludesJson(contentType)
  THEN LET parsed == parseJSON(status, JsonType, text) IN
         IF parsed.channel # "success" THEN Ran(parsed, <<"parseJSON">>)
         ELSE LET decoded == ApplyDecoder(decoder, status, JsonType, text, parsed.value) IN
           IF decoded.channel # "success" THEN Ran(decoded, <<"parseJSON", "decoder">>)
           ELSE Ran(SuccessRecord(status, decoded.value), <<"parseJSON", "decoder">>)
  ELSE Ran(Fail(unexpectedContentType(status, <<JsonType>>, contentType, text)), <<>>)

\* as above, ending in Effect.fail of the HttpError record
processJsonContentError(status, contentType, text, decoder) ==
  IF IncludesJson(contentType)
  THEN LET parsed == parseJSON(status, JsonType, text) IN
         IF parsed.channel # "success" THEN Ran(parsed, <<"parseJSON">>)
         ELSE LET decoded == ApplyDecoder(decoder, status, JsonType, text, parsed.value) IN
           IF decoded.channel # "success" THEN Ran(decoded, <<"parseJSON", "decoder">>)
           ELSE Ran(HttpErrorRecord(status, decoded.value), <<"parseJSON", "decoder">>)
  ELSE Ran(Fail(unexpectedContentType(status, <<JsonType>>, contentType, text)), <<>>)

\* mutant: an undeclared status falls through to the 500 clause
classifylistPets_Coerce(status, contentType, text) ==
  CASE status = 200 -> processJsonContentSuccess(200, contentType, text, "decodelistPets_200")
    [] OTHER -> processJsonContentError(500, contentType, text, "decodelistPets_500")

classifylistPets(status, contentType, text) ==
  CASE status = 200 -> processJsonContentSuccess(200, contentType, text, "decodelistPets_200")
    [] status = 500 -> processJsonContentError(500, contentType, text, "decodelistPets_500")
    [] OTHER -> Ran(Fail(unexpectedStatus(status, text)), <<>>)

classifycreatePet(status, contentType, text) ==
  CASE status = 201 -> processJsonContentSuccess(201, contentType, text, "decodecreatePet_201")
    [] status = 400 -> processJsonContentError(400, contentType, text, "decodecreatePet_400")
    [] status = 500 -> processJsonContentError(500, contentType, text, "decodecreatePet_500")
    [] OTHER -> Ran(Fail(unexpectedStatus(status, text)), <<>>)

\* mutant: the 200 clause wraps the parsed value without running the decoder
classifygetPet_SkipDecoder(status, contentType, text) ==
  CASE status = 200 ->
         IF IncludesJson(contentType)
         THEN LET parsed == parseJSON(200, JsonType, text) IN
                IF parsed.channel # "success" THEN Ran(parsed, <<"parseJSON">>)
                ELSE Ran(SuccessRecord(200, parsed.value), <<"parseJSON">>)
         ELSE Ran(Fail(unexpectedContentType(200, <<JsonType>>, contentType, text)), <<>>)
    [] status = 404 -> processJsonContentError(404, contentType, text, "decodegetPet_404")
    [] status = 500 -> processJsonContentError(500, contentType, text, "decodegetPet_500")
    [] OTHER -> Ran(Fail(unexpectedStatus(status, text)), <<>>)

classifygetPet(status, contentType, text) ==
  CASE status = 200 -> processJsonContentSuccess(200, contentType, text, "decodegetPet_200")
    [] status = 404 -> processJsonContentError(404, contentType, text, "decodegetPet_404")
    [] status = 500 -> processJsonContentError(500, contentType, text, "decodegetPet_500")
    [] OTHER -> Ran(Fail(unexpectedStatus(status, text)), <<>>)

\* mutant: the 204 clause is generated like a JSON status
classifydeletePet_Parse204(status, contentType, text) ==
  CASE status = 204 -> processJsonContentSuccess(204, contentType, text, "decodedeletePet_404")
    [] status = 404 -> processJsonContentError(404, contentType, text, "decodedeletePet_404")
    [] status = 500 -> processJsonContentError(500, contentType, text, "decodedeletePet_500")
    [] OTHER -> Ran(Fail(unexpectedStatus(status, text)), <<>>)

classifydeletePet(status, contentType, text) ==
  CASE status = 204 ->
         Ran(Succeed([status |-> 204, contentType |-> "none", body |-> Undefined]), <<>>)
    [] status = 404 -> processJsonContentError(404, contentType, text, "decodedeletePet_404")
    [] status = 500 -> processJsonContentError(500, contentType, text, "decodedeletePet_500")
    [] OTHER -> Ran(Fail(unexpectedStatus(status, text)), <<>>)

\* response.headers.get(name) ?? undefined
HeadersGet(headers, name) ==
  IF name \in DOMAIN headers THEN DefinedString(headers[name]) ELSE UndefinedString

\* createDispatcher: the dispatcher it returns hands the status, the
\* content-type header as read and the text of the response to classify
createDispatcher(response) ==
  [status |-> response.status,
   contentType |-> HeadersGet(response.headers, "content-type"),
   text |-> response.text]

dispatcherlistPets(response) ==
  LET a == createDispatcher(response) IN classifylistPets(a.status, a.contentType, a.text)
dispatchercreatePet(response) ==
  LET a == createDispatcher(response) IN classifycreatePet(a.status, a.contentType, a.text)
dispatchergetPet(response) ==
  LET a == createDispatcher(response) IN classifygetPet(a.status, a.contentType, a.text)
dispatcherdeletePet(response) ==
  LET a == createDispatcher(response) IN classifydeletePet(a.status, a.contentType, a.text)

\* createUniversalDispatcher(): classification by status range alone; an empty
\* text is a bodiless variant, application/json is parsed, anything else is
\* an unexpected content type
classifyUniversal(status, contentType, text) ==
  IF text = <<>>
  THEN Ran(IF 200 <= status /\ status < 300
           THEN Succeed([status |-> status, contentType |-> "none", body |-> Undefined])
           ELSE Fail([_tag |-> "HttpError", status |-> status, contentType |-> "none",
                      body |-> Undefined]), <<>>)
  ELSE IF IncludesJson(contentType)
  THEN LET parsed == parseJSON(status, JsonType, text) IN
         IF parsed.channel # "success" THEN Ran(parsed, <<"parseJSON">>)
         ELSE IF 200 <= status /\ status < 300
         THEN Ran(SuccessRecord(status, parsed.value), <<"parseJSON">>)
         ELSE Ran(HttpErrorRecord(status, parsed.value), <<"parseJSON">>)
  ELSE Ran(Fail(unexpectedContentType(status, <<JsonType>>, contentType, text)), <<>>)

universalDispatcher(response) ==
  LET a == createDispatcher(response) IN classifyUniversal(a.status, a.contentType, a.text)

Dispatch(o, response) ==
  CASE o = "listPets" -> dispatcherlistPets(response)
    [] o = "createPet" -> dispatchercreatePet(response)
    [] o = "getPet" -> dispatchergetPet(response)
    [] o = "deletePet" -> dispatcherdeletePet(response)
    [] o = "universal" -> universalDispatcher(response)
    [] OTHER -> Ran(Die("TypeError: config.dispatcher is not a function"), <<>>)

(***************************************************************************)
(* Type-level 2xx classification (core/api-client)                         *)
(***************************************************************************)
\* `${S}`: the decimal digits of a status key
RECURSIVE Digits(_)
Digits(n) == IF n < 10 THEN <<n>> ELSE Append(Digits(n \div 10), n % 10)

\* mutant: success is membership in a list of known codes
Is2xx_KnownCodes(S) == S \in {200, 201, 204}

\* `${S}` extends `2${string}`
Is2xx(S) == Head(Digits(S)) = 2

(***************************************************************************)
(* executeRequest                                                          *)
(***************************************************************************)
(***************************************************************************)
(* Dispatcher maps (generated/dispatchers-by-path.ts)                      *)
(***************************************************************************)
\* DispatchersFor<Paths>: path -> method -> dispatcher
dispatchersByPath ==
  [path \in {"/pets", "/pets/{petId}"} |->
     IF path = "/pets"
     THEN [method \in {"get", "post"} |-> IF method = "get" THEN "listPets" ELSE "createPet"]
     ELSE [method \in {"get", "delete"} |-> IF method = "get" THEN "getPet" ELSE "deletePet"]]

\* a map generated from an earlier schema that had GET /pets only
listOnlyDispatchers == [path \in {"/pets"} |-> [method \in {"get"} |-> "listPets"]]

DispatcherMaps == {dispatchersByPath, listOnlyDispatchers}

EmptyMap == [path \in {} |-> <<>>]
UndefinedMap == [defined |-> FALSE, map |-> EmptyMap]
DefinedMap(m) == [defined |-> TRUE, map |-> m]

NoClient == [state |-> "none", explicit |-> FALSE, dispatchers |-> EmptyMap, error |-> ""]
NoCall == [path |-> "", method |-> ""]

\* (path, method) pairs PathsForMethod<Paths, Method> admits for the petstore
SchemaCalls ==
  {[path |-> "/pets", method |-> "get"], [path |-> "/pets", method |-> "post"],
   [path |-> "/pets/{petId}", method |-> "get"], [path |-> "/pets/{petId}", method |-> "delete"]}

NoHttpResponse == [status |-> 0, headers |-> NoHeaders]
NoFibers == <<>>
NoResponse == [status |-> 0, headers |-> NoHeaders, text |-> <<>>]
NoResult == [channel |-> "none", value |-> Undefined]
NotThrown == [kind |-> "none", message |-> ""]

HttpResponses == [status : Statuses, headers : PlatformHeaders]

RawResponses ==
  [status : Statuses, headers : ResponseHeaders, text : Texts]

\* what a failing transport rejects with: Error objects and bare values
ErrorObject(m) == [kind |-> "Error", message |-> m]
ThrownValue(m) == [kind |-> "string", message |-> m]
Causes == {ErrorObject("ECONNREFUSED"), ErrorObject("body stream failed"), ThrownValue("timeout")}

\* error instanceof Error ? error : new Error(String(error))
toError(error) == IF error.kind = "Error" THEN error ELSE ErrorObject(error.message)

\* asRawResponse({status, headers: toNativeHeaders(response.headers), text})
asRawResponse(r, text) ==
  [status |-> r.status, headers |-> toNativeHeaders(r.headers), text |-> text]

Init ==
  /\ pc = "idle"
  /\ op = "none"
  /\ httpResponse = NoHttpResponse
  /\ thrown = NotThrown
  /\ rawResponse = NoResponse
  /\ result = NoResult
  /\ steps = <<>>
  /\ typeStatus = 100
  /\ typeVariant = "unresolved"
  /\ defaultDispatchers = UndefinedMap
  /\ registered = <<>>
  /\ client = NoClient
  /\ call = NoCall
  /\ fibers = NoFibers
  /\ exposed = NoResult
  /\ InitFetch

\* a client method builds the config and calls executeRequest (STEP 1-2)
StartRequest ==
  /\ pc \in {"idle", "done"}
  /\ \E o \in Operations : op' = o
  /\ pc' = "sent"
  /\ httpResponse' = NoHttpResponse
  /\ thrown' = NotThrown
  /\ rawResponse' = NoResponse
  /\ result' = NoResult
  /\ steps' = <<>>
  /\ UNCHANGED <<notExecutor>>

\* STEP 3: client.execute(request) delivers a response (status, headers)
ClientExecuteOf(answers) ==
  /\ pc = "sent"
  /\ \E r \in answers : httpResponse' = r
  /\ pc' = "responded"
  /\ steps' = Append(steps, "execute")
  /\ UNCHANGED <<op, thrown, rawResponse, result, notExecutor>>

ClientExecute == ClientExecuteOf(HttpResponses)

\* STEP 3: response.text succeeds; asRawResponse builds the RawResponse
TransportRespondOf(bodies) ==
  /\ pc = "responded"
  /\ \E text \in bodies : rawResponse' = asRawResponse(httpResponse, text)
  /\ pc' = "received"
  /\ steps' = Append(steps, "asRawResponse")
  /\ UNCHANGED <<op, httpResponse, thrown, result, notExecutor>>

TransportRespond == TransportRespondOf(Texts)

\* mutant: the failure is logged and an empty response is dispatched instead
TransportFail_DispatchAnyway ==
  /\ pc \in {"sent", "responded"}
  /\ \E error \in Causes :
       /\ thrown' = error
       /\ \E d \in {Dispatch(op, asRawResponse(httpResponse, <<>>))} :
            /\ result' = d.exit
            /\ steps' = steps \o <<"mapError", "dispatcher">> \o d.ran
  /\ pc' = "done"
  /\ UNCHANGED <<op, httpResponse, rawResponse, notExecutor>>

\* STEP 3: client.execute or response.text fails; Effect.mapError turns the
\* failure into TransportError and the generator stops there
TransportFail ==
  /\ pc \in {"sent", "responded"}
  /\ \E error \in Causes :
       /\ thrown' = error
       /\ result' = Fail([_tag |-> "TransportError", error |-> toError(error)])
  /\ pc' = "done"
  /\ steps' = Append(steps, "mapError")
  /\ UNCHANGED <<op, httpResponse, rawResponse, notExecutor>>

\* mutant: HttpError failures are caught and returned as success values
DispatchResponse_ExposeHttpErrors ==
  /\ pc = "received"
  /\ \E d \in {Dispatch(op, rawResponse)} :
       /\ result' = IF "_tag" \in DOMAIN d.exit.value /\ d.exit.value._tag = "HttpError"
                    THEN Succeed(d.exit.value) ELSE d.exit
       /\ steps' = steps \o <<"dispatcher">> \o d.ran
  /\ pc' = "done"
  /\ UNCHANGED <<op, httpResponse, thrown, rawResponse, notExecutor>>

\* mutant: a ParseError is retried once on the text with its last token dropped
DispatchResponse_RetryOnParseError ==
  /\ pc = "received"
  /\ \E d \in {Dispatch(op, rawResponse)} :
       IF TagOf(d.exit.value) = "ParseError"
       THEN /\ rawResponse' = [rawResponse EXCEPT !.text = SubSeq(@, 1, Len(@) - 1)]
            /\ \E e \in {Dispatch(op, rawResponse')} :
                 /\ result' = e.exit
                 /\ steps' = steps \o <<"dispatcher">> \o d.ran \o <<"dispatcher">> \o e.ran
       ELSE /\ rawResponse' = rawResponse
            /\ result' = d.exit
            /\ steps' = steps \o <<"dispatcher">> \o d.ran
  /\ pc' = "done"
  /\ UNCHANGED <<op, httpResponse, thrown, notExecutor>>

\* STEP 4: return yield* config.dispatcher(rawResponse)
DispatchResponse ==
  /\ pc = "received"
  /\ \E d \in {Dispatch(op, rawResponse)} :
       /\ result' = d.exit
       /\ steps' = steps \o <<"dispatcher">> \o d.ran
  /\ pc' = "done"
  /\ UNCHANGED <<op, httpResponse, thrown, rawResponse, notExecutor>>

Next == StartRequest \/ ClientExecute \/ TransportRespond \/ TransportFail \/ DispatchResponse

Spec == Init /\ [][Next]_vars

(***************************************************************************)
(* createClient with the default dispatcher registry (create-client.ts)    *)
(***************************************************************************)
NotRegistered == "Default dispatchers are not registered. Import generated dispatchers module."

\* mutant: a second registration of the registered map clears the registry
registerDefaultDispatchers_Toggle(dispatchers) ==
  IF defaultDispatchers = DefinedMap(dispatchers) THEN UndefinedMap ELSE DefinedMap(dispatchers)

\* defaultDispatchers = dispatchers
registerDefaultDispatchers(dispatchers) == DefinedMap(dispatchers)

Returned(m) == [threw |-> FALSE, map |-> m, error |-> ""]
Threw(e) == [threw |-> TRUE, map |-> EmptyMap, error |-> e]

\* mutant: an unset registry resolves to an empty map instead of throwing
resolveDefaultDispatchers_EmptyFallback ==
  IF ~defaultDispatchers.defined THEN Returned(EmptyMap) ELSE Returned(defaultDispatchers.map)

resolveDefaultDispatchers ==
  IF ~defaultDispatchers.defined THEN Threw(NotRegistered) ELSE Returned(defaultDispatchers.map)

\* mutant: the handler of a path always takes the path's get dispatcher
createMethodHandlerWithDispatchers_GetOnly(method, dispatchers, path) ==
  IF path \notin DOMAIN dispatchers
  THEN [threw |-> TRUE, dispatcher |-> "none"]
  ELSE [threw |-> FALSE,
        dispatcher |-> IF "get" \in DOMAIN dispatchers[path]
                       THEN dispatchers[path]["get"] ELSE "undefined"]

\* dispatchers[path][method]: reading [method] of a missing path throws a
\* TypeError, a missing method reads as undefined
createMethodHandlerWithDispatchers(method, dispatchers, path) ==
  IF path \notin DOMAIN dispatchers
  THEN [threw |-> TRUE, dispatcher |-> "none"]
  ELSE [threw |-> FALSE,
        dispatcher |-> IF method \in DOMAIN dispatchers[path]
                       THEN dispatchers[path][method] ELSE "undefined"]

\* module initialisation or application code registers a dispatcher map
RegisterDefaultDispatchers ==
  /\ Len(registered) < MaxRegistrations
  /\ \E dispatchers \in DispatcherMaps :
       /\ defaultDispatchers' = registerDefaultDispatchers(dispatchers)
       /\ registered' = Append(registered, dispatchers)
  /\ UNCHANGED <<executorVars, notClient, client, call>>

\* createClient(options, dispatchers?): dispatchers ?? resolveDefaultDispatchers();
\* the new client has no call in progress
CreateClient ==
  /\ pc \in {"idle", "done"}
  /\ \E dispatchers \in {UndefinedMap} \cup {DefinedMap(m) : m \in DispatcherMaps} :
       \E resolved \in {IF dispatchers.defined THEN Returned(dispatchers.map)
                         ELSE resolveDefaultDispatchers} :
         client' = [state |-> IF resolved.threw THEN "threw" ELSE "created",
                    explicit |-> dispatchers.defined,
                    dispatchers |-> resolved.map,
                    error |-> resolved.error]
  /\ pc' = "idle"
  /\ op' = "none"
  /\ call' = NoCall
  /\ httpResponse' = NoHttpResponse
  /\ thrown' = NotThrown
  /\ rawResponse' = NoResponse
  /\ result' = NoResult
  /\ steps' = <<>>
  /\ UNCHANGED <<notClient, defaultDispatchers, registered>>

\* client.METHOD(path, options): the dispatcher is read from the client's map
\* and the request is handed to executeRequest
ClientCall_ResolveAtCall ==
  /\ pc \in {"idle", "done"}
  /\ client.state = "created"
  /\ \E c \in SchemaCalls :
       \E handler \in {createMethodHandlerWithDispatchers(
                          c.method,
                          IF client.explicit THEN client.dispatchers ELSE defaultDispatchers.map,
                          c.path)} :
         /\ call' = c
         /\ op' = handler.dispatcher
         /\ pc' = IF handler.threw THEN "done" ELSE "sent"
         /\ result' = IF handler.threw
                      THEN Die("TypeError: Cannot read properties of undefined")
                      ELSE NoResult
  /\ httpResponse' = NoHttpResponse
  /\ thrown' = NotThrown
  /\ rawResponse' = NoResponse
  /\ steps' = <<>>
  /\ UNCHANGED <<notClient, defaultDispatchers, registered, client>>

ClientCall ==
  /\ pc \in {"idle", "done"}
  /\ client.state = "created"
  /\ \E c \in SchemaCalls :
       \E handler \in {createMethodHandlerWithDispatchers(c.method, client.dispatchers, c.path)} :
         /\ call' = c
         /\ op' = handler.dispatcher
         /\ pc' = IF handler.threw THEN "done" ELSE "sent"
         /\ result' = IF handler.threw
                      THEN Die("TypeError: Cannot read properties of undefined")
                      ELSE NoResult
  /\ httpResponse' = NoHttpResponse
  /\ thrown' = NotThrown
  /\ rawResponse' = NoResponse
  /\ steps' = <<>>
  /\ UNCHANGED <<notClient, defaultDispatchers, registered, client>>

\* the content type a Response built from a string body has when none is given
TextPlainType == <<"text/plain", ";", "charset=UTF-8">>

\* createMockHttpClientLayer: new Response(body, {status, headers: new
\* Headers(headers)}); a string body without content-type gets text/plain,
\* the null body of a 204 or 304 gets none
MockLayerHeaders(status, headers) ==
  IF status \in {204, 304} \/ "content-type" \in DOMAIN headers
  THEN toNativeHeaders(headers)
  ELSE [n \in {"content-type"} |-> TextPlainType]

\* responses the mock HttpClient layers of the client tests answer with
MockHttpResponses ==
  {[status |-> s, headers |-> MockLayerHeaders(s, h)] :
     s \in {200, 201, 204, 404, 418},
     h \in {NoHeaders, [n \in {"content-type"} |-> <<JsonType>>]}}

MockTexts == {PetsText, PetText, ErrorText, NotValidText}

MockExecute == ClientExecuteOf(MockHttpResponses)

\* createMockHttpClientLayer: a 204 or 304 response is built with a null
\* body, whatever body the test passes
MockBody(status, body) == IF status \in {204, 304} THEN EmptyText ELSE body

\* STEP 3 under the mock layer: response.text gives the text of the body
\* the layer built
MockRespondOf(bodies) ==
  /\ pc = "responded"
  /\ \E body \in bodies :
       rawResponse' = asRawResponse(httpResponse, MockBody(httpResponse.status, body))
  /\ pc' = "received"
  /\ steps' = Append(steps, "asRawResponse")
  /\ UNCHANGED <<op, httpResponse, thrown, result, notExecutor>>

MockRespond == MockRespondOf(MockTexts)

NextClient ==
  \/ RegisterDefaultDispatchers
  \/ CreateClient
  \/ ClientCall
  \/ MockExecute
  \/ MockRespond
  \/ TransportFail
  \/ DispatchResponse

SpecClient == Init /\ [][NextClient]_vars

(***************************************************************************)
(* createClientEffect: universal dispatcher, HTTP errors exposed as values *)
(***************************************************************************)
\* typeof error === "object" && error !== null && "_tag" in error
\*   && Reflect.get(error, "_tag") === "HttpError"
isHttpErrorValue(error) == "_tag" \in DOMAIN error /\ error._tag = "HttpError"

\* mutant: every failure is caught and returned as a value
exposeHttpErrorsAsValues_CatchAll(request) ==
  IF request.channel = "error" THEN Succeed(request.value) ELSE request

\* request.pipe(Effect.catchIf(isHttpErrorValue, (error) => Effect.succeed(error)))
exposeHttpErrorsAsValues(request) ==
  IF request.channel = "error" /\ isHttpErrorValue(request.value)
  THEN Succeed(request.value)
  ELSE request

\* apiClientEffect.METHOD(path, options): createMethodHandler with the
\* universal dispatcher hands the request to executeRequest
EffectCall ==
  /\ pc = "idle" \/ (pc = "done" /\ exposed # NoResult)
  /\ op' = "universal"
  /\ pc' = "sent"
  /\ httpResponse' = NoHttpResponse
  /\ thrown' = NotThrown
  /\ rawResponse' = NoResponse
  /\ result' = NoResult
  /\ steps' = <<>>
  /\ exposed' = NoResult
  /\ UNCHANGED <<notEffect>>

\* the exit of executeRequest passes through exposeHttpErrorsAsValues
ExposeHttpErrors ==
  /\ pc = "done"
  /\ exposed = NoResult
  /\ exposed' = exposeHttpErrorsAsValues(result)
  /\ UNCHANGED <<executorVars, notEffect>>

\* responses of the mock HttpClient layers of the createClientEffect tests
EffectHttpResponses ==
  {[status |-> s, headers |-> MockLayerHeaders(s, h)] :
     s \in {200, 201, 204, 299, 300, 401, 409, 500},
     h \in {NoHeaders, [n \in {"content-type"} |-> <<JsonType>>],
            [n \in {"content-type"} |-> <<"text/html">>]}}

EffectTexts == {PetText, ErrorText, NotValidText, EmptyText, HtmlText}

EffectExecute == ClientExecuteOf(EffectHttpResponses)

EffectRespond == MockRespondOf(EffectTexts)

NextEffect ==
  \/ EffectCall
  \/ EffectExecute
  \/ EffectRespond
  \/ TransportFail
  \/ DispatchResponse
  \/ ExposeHttpErrors

SpecEffect == Init /\ [][NextEffect]_vars

(***************************************************************************)
(* Concurrent invocations of one generated dispatcher.  Each invocation    *)
(* runs the effect its dispatcher built, one yield* at a time; status,     *)
(* contentType, text, parsed and decoded are locals of the invocation.     *)
(***************************************************************************)
Clause(kind, decoder) == [kind |-> kind, decoder |-> decoder]

\* Match.value(status).pipe(Match.when(...), ..., Match.orElse(...))
matchStatus(o, status) ==
  CASE o = "listPets" /\ status = 200 -> Clause("success", "decodelistPets_200")
    [] o = "listPets" /\ status = 500 -> Clause("error", "decodelistPets_500")
    [] o = "createPet" /\ status = 201 -> Clause("success", "decodecreatePet_201")
    [] o = "createPet" /\ status = 400 -> Clause("error", "decodecreatePet_400")
    [] o = "createPet" /\ status = 500 -> Clause("error", "decodecreatePet_500")
    [] o = "getPet" /\ status = 200 -> Clause("success", "decodegetPet_200")
    [] o = "getPet" /\ status = 404 -> Clause("error", "decodegetPet_404")
    [] o = "getPet" /\ status = 500 -> Clause("error", "decodegetPet_500")
    [] o = "deletePet" /\ status = 204 -> Clause("noContent", "none")
    [] o = "deletePet" /\ status = 404 -> Clause("error", "decodedeletePet_404")
    [] o = "deletePet" /\ status = 500 -> Clause("error", "decodedeletePet_500")
    [] OTHER -> Clause("orElse", "none")

IdleFiber ==
  [pc |-> "idle", response |-> NoResponse, status |-> 0, contentType |-> UndefinedString,
   text |-> <<>>, clause |-> Clause("none", "none"), parsed |-> Undefined,
   decoded |-> Undefined, exit |-> NoResult]

\* the effect a clause evaluates to: Effect.gen (nothing run yet), or an
\* immediate Effect.succeed / Effect.fail
BuiltEffect(clause, status, contentType, text) ==
  CASE clause.kind = "orElse" -> Fail(unexpectedStatus(status, text))
    [] clause.kind = "noContent" ->
         Succeed([status |-> 204, contentType |-> "none", body |-> Undefined])
    [] OTHER ->
         IF IncludesJson(contentType) THEN NoResult
         ELSE Fail(unexpectedContentType(status, <<JsonType>>, contentType, text))

FiberResponses ==
  [status : {200, 204, 404, 418},
   headers : {NoHeaders, [n \in {"content-type"} |-> <<JsonType>>]},
   text : {PetText, ErrorText, NotValidText}]

InitFibers ==
  /\ pc = "idle"
  /\ op \in Operations
  /\ httpResponse = NoHttpResponse
  /\ thrown = NotThrown
  /\ rawResponse = NoResponse
  /\ result = NoResult
  /\ steps = <<>>
  /\ typeStatus = 100
  /\ typeVariant = "unresolved"
  /\ defaultDispatchers = UndefinedMap
  /\ registered = <<>>
  /\ client = NoClient
  /\ call = NoCall
  /\ fibers = [i \in 1..NumFibers |-> IdleFiber]
  /\ exposed = NoResult
  /\ InitFetch

\* dispatcher(response): createDispatcher reads the response and the clause
\* of its status builds the effect
FiberInvoke(i) ==
  /\ fibers[i].pc = "idle"
  /\ \E r \in FiberResponses :
       \E a \in {createDispatcher(r)} :
         \E clause \in {matchStatus(op, a.status)} :
           \E effect \in {BuiltEffect(clause, a.status, a.contentType, a.text)} :
             fibers' = [fibers EXCEPT ![i] =
                          [pc |-> IF effect = NoResult THEN "gen" ELSE "effect",
                           response |-> r, status |-> a.status,
                           contentType |-> a.contentType, text |-> a.text,
                           clause |-> clause, parsed |-> Undefined,
                           decoded |-> Undefined, exit |-> effect]]
  /\ UNCHANGED <<op, notFibers>>

\* running an Effect.succeed / Effect.fail ends the invocation with its value
FiberSettle(i) ==
  /\ fibers[i].pc = "effect"
  /\ fibers' = [fibers EXCEPT ![i].pc = "done"]
  /\ UNCHANGED <<op, notFibers>>

\* mutant: the text to parse is kept in a buffer shared by the invocations,
\* written by the first of them
FiberParse_SharedText(i) ==
  /\ fibers[i].pc = "gen"
  /\ \E parsed \in {parseJSON(fibers[i].status, JsonType, fibers[1].text)} :
       fibers' = [fibers EXCEPT ![i] =
                    IF parsed.channel = "success"
                    THEN [@ EXCEPT !.pc = "parsed", !.parsed = parsed.value]
                    ELSE [@ EXCEPT !.pc = "done", !.exit = parsed]]
  /\ UNCHANGED <<op, notFibers>>

\* const parsed = yield* parseJSON(status, "application/json", text)
FiberParse(i) ==
  /\ fibers[i].pc = "gen"
  /\ \E parsed \in {parseJSON(fibers[i].status, JsonType, fibers[i].text)} :
       fibers' = [fibers EXCEPT ![i] =
                    IF parsed.channel = "success"
                    THEN [@ EXCEPT !.pc = "parsed", !.parsed = parsed.value]
                    ELSE [@ EXCEPT !.pc = "done", !.exit = parsed]]
  /\ UNCHANGED <<op, notFibers>>

\* const decoded = yield* decoder(status, "application/json", text, parsed)
FiberDecode(i) ==
  /\ fibers[i].pc = "parsed"
  /\ \E decoded \in {ApplyDecoder(fibers[i].clause.decoder, fibers[i].status, JsonType,
                                    fibers[i].text, fibers[i].parsed)} :
       fibers' = [fibers EXCEPT ![i] =
                    IF decoded.channel = "success"
                    THEN [@ EXCEPT !.pc = "decoded", !.decoded = decoded.value]
                    ELSE [@ EXCEPT !.pc = "done", !.exit = decoded]]
  /\ UNCHANGED <<op, notFibers>>

\* return { status, contentType, body } / return yield* Effect.fail(HttpError)
FiberReturn(i) ==
  /\ fibers[i].pc = "decoded"
  /\ fibers' = [fibers EXCEPT ![i] =
                  [@ EXCEPT !.pc = "done",
                            !.exit = IF fibers[i].clause.kind = "success"
                                     THEN SuccessRecord(fibers[i].status, fibers[i].decoded)
                                     ELSE HttpErrorRecord(fibers[i].status, fibers[i].decoded)]]
  /\ UNCHANGED <<op, notFibers>>

NextFibers ==
  \E i \in 1..NumFibers :
    \/ FiberInvoke(i)
    \/ FiberSettle(i)
    \/ FiberParse(i)
    \/ FiberDecode(i)
    \/ FiberReturn(i)

SpecFibers == InitFibers /\ [][NextFibers]_vars

(***************************************************************************)
(* The openapi-fetch compatible promise client                             *)
(* (shell/api-client/promise-client): responses, middleware, envelope      *)
(***************************************************************************)
MaxMiddlewares == 2     \* middlewares registered on the client at a time

\* a Middleware object: its identity and what each hook it has returns
\* ("none": the hook is absent)
Middleware(id, onRequest, onResponse, onError) ==
  [id |-> id, onRequest |-> onRequest, onResponse |-> onResponse, onError |-> onError]

rewriteMiddleware == Middleware("rewrite", "Request", "Response", "Error")
loggerMiddleware == Middleware("logger", "undefined", "undefined", "undefined")
cacheMiddleware == Middleware("cache", "Response", "none", "none")
fallbackMiddleware == Middleware("fallback", "none", "none", "Response")
authMiddleware == Middleware("auth", "Request", "Response", "none")
\* its onRequest returns a value that is no Request, no Response and not undefined
sloppyMiddleware == Middleware("sloppy", "other", "none", "none")
\* an object with none of the three hooks
hooklessObject == Middleware("hookless", "none", "none", "none")

\* the middlewares given to client.use / client.eject, and those given per request
GlobalMiddlewares == {rewriteMiddleware, cacheMiddleware, fallbackMiddleware}
LocalMiddlewares == {<<>>, <<loggerMiddleware>>}

\* a Request: its method and the hooks that replaced it so far
Request(method) == [method |-> method, by |-> <<>>]

\* a Response: status, Content-Length header, whether its Transfer-Encoding
\* header names chunked, body text, whether the body can be read, who
\* produced it and the onResponse hooks that replaced it so far
Response(status, contentLength, text, readable, from) ==
  [status |-> status, contentLength |-> contentLength, chunked |-> FALSE, text |-> text,
   readable |-> readable, from |-> from, by |-> <<>>]

\* the same Response sent with Transfer-Encoding: chunked
Chunked(response) == [response EXCEPT !.chunked = TRUE]

\* response.ok of the Fetch API
ResponseOk(response) == 200 <= response.status /\ response.status <= 299

\* what fetch resolves with: readable bodies of every kind, and bodies whose
\* stream fails while it is read
FetchStatuses == {200, 204, 404}
FetchTexts == {PetText, HtmlText, EmptyText}
FetchResponses ==
  {Response(s, cl, text, TRUE, "fetch") :
     s \in FetchStatuses, cl \in {UndefinedString, DefinedString(<<"0">>)}, text \in FetchTexts}
  \cup {Response(s, UndefinedString, PetText, FALSE, "fetch") : s \in FetchStatuses}

\* what fetch rejects with
FetchError == ErrorObject("fetch failed")

\* the Response and the Error the hooks of a middleware build
HookResponse(id) ==
  IF id = "cache" THEN Response(200, UndefinedString, PetText, TRUE, id)
  ELSE Response(503, UndefinedString, HtmlText, TRUE, id)
HookError(id) == ErrorObject(id)

\* a JavaScript string as a value
TextValue(raw) == [t |-> "text", v |-> raw]

\* readText: response.text(), failing with what the body stream failed with
readText(response) ==
  IF response.readable THEN Succeed(response.text) ELSE Fail(ErrorObject("body stream failed"))

\* raw === "" gives undefined, otherwise JSON.parse(raw) with its SyntaxError as failure
parseJsonText(raw) ==
  IF raw = EmptyText THEN Succeed(Undefined)
  ELSE LET parsed == JsonParse(raw) IN
    IF parsed.ok THEN Succeed(parsed.val) ELSE Fail(ErrorObject("SyntaxError"))

parseByMode(response, parseAs) ==
  CASE parseAs = "stream" -> Succeed([t |-> "stream", v |-> response.text])
    [] parseAs = "json" ->
         LET raw == readText(response) IN
           IF raw.channel = "success" THEN parseJsonText(raw.value) ELSE raw
    [] parseAs = "text" ->
         LET raw == readText(response) IN
           IF raw.channel = "success" THEN Succeed(TextValue(raw.value)) ELSE raw
    [] OTHER ->
         IF response.readable THEN Succeed([t |-> parseAs, v |-> response.text])
         ELSE Fail(ErrorObject("body stream failed"))

isNoContentResponse(response, request) ==
  \/ response.status = 204
  \/ request.method = "HEAD"
  \/ response.contentLength = DefinedString(<<"0">>)

\* Effect.try({try: () => JSON.parse(raw), catch: () => raw}): the value of
\* catch is the failure of the effect
parseErrorBody(response) ==
  LET raw == readText(response) IN
    IF raw.channel # "success" THEN raw
    ELSE LET parsed == JsonParse(raw.value) IN
      IF parsed.ok THEN Succeed(parsed.val) ELSE Fail(TextValue(raw.value))

toParsedFetchResponse(response, request, parseAs) ==
  IF isNoContentResponse(response, request)
  THEN IF ResponseOk(response)
       THEN Succeed([data |-> Undefined, response |-> response])
       ELSE Succeed([error |-> Undefined, response |-> response])
  ELSE IF ResponseOk(response)
  THEN LET data == parseByMode(response, parseAs) IN
         IF data.channel = "success"
         THEN Succeed([data |-> data.value, response |-> response]) ELSE data
  ELSE LET error == parseErrorBody(response) IN
         IF error.channel = "success"
         THEN Succeed([error |-> error.value, response |-> response]) ELSE error

\* mergeMiddlewares: [...globalMiddlewares, ...localMiddlewares]
mergeMiddlewares_LocalFirst(global, local) == local \o global

mergeMiddlewares(global, local) == global \o local

\* one entry of the log of a call: the hook (or fetch) invoked and what it was given
Invoked(hook, id, got) == [hook |-> hook, id |-> id, got |-> got]

Settled == phase \in {"resolved", "rejected"}

\* client.use(...middleware): globalMiddlewares.push(...middleware)
use(list, middleware) == list \o middleware

UseOf_SharedList(items) ==
  \E middleware \in items :
    /\ Len(globalMiddlewares) < MaxMiddlewares
    /\ globalMiddlewares' = use(globalMiddlewares, <<middleware>>)
    /\ middlewares' = use(middlewares, <<middleware>>)
    /\ UNCHANGED <<phase, fetchOptions, hookIndex, fetchRequest, shortCircuitResponse,
                   fetchResponse, currentError, envelope, hookLog, notFetch>>

UseOf(items) ==
  \E middleware \in items :
    /\ Len(globalMiddlewares) < MaxMiddlewares
    /\ globalMiddlewares' = use(globalMiddlewares, <<middleware>>)
    /\ UNCHANGED <<callVars, notFetch>>

\* globalMiddlewares.indexOf(item), 0 when absent
indexOf(list, item) ==
  IF \E i \in DOMAIN list : list[i] = item
  THEN CHOOSE i \in DOMAIN list : list[i] = item /\ \A j \in 1..(i - 1) : list[j] # item
  ELSE 0

\* globalMiddlewares.splice(index, 1)
splice(list, index) == [i \in 1..(Len(list) - 1) |-> IF i < index THEN list[i] ELSE list[i + 1]]

\* client.eject(...middleware): for each item, its first occurrence is removed, if any
RECURSIVE eject_NoIndexCheck(_, _)
eject_NoIndexCheck(list, middleware) ==
  IF middleware = <<>> THEN list
  ELSE LET index == indexOf(list, Head(middleware)) IN
    eject_NoIndexCheck(IF index # 0 THEN splice(list, index)
                       ELSE SubSeq(list, 1, Len(list) - 1), Tail(middleware))

RECURSIVE eject(_, _)
eject(list, middleware) ==
  IF middleware = <<>> THEN list
  ELSE LET index == indexOf(list, Head(middleware)) IN
    eject(IF index # 0 THEN splice(list, index) ELSE list, Tail(middleware))

\* an eject call that finds its item
EjectOf(items) ==
  \E middleware \in items :
    /\ indexOf(globalMiddlewares, middleware) # 0
    /\ globalMiddlewares' = eject(globalMiddlewares, <<middleware>>)
    /\ UNCHANGED <<callVars, notFetch>>

Use == UseOf(GlobalMiddlewares)
Eject == EjectOf(GlobalMiddlewares)

\* request-level options of the calls
FetchMethods == {"GET", "HEAD"}
ParseModes == {"json", "text"}

\* client.GET(path, init) and the like: createCoreFetchEffect up to the first hook
FetchCallOf(methods, modes, locals) ==
  \E method \in methods, parseAs \in modes, local \in locals :
    /\ phase = "idle" \/ Settled
    /\ fetchOptions' = [method |-> method, parseAs |-> parseAs, middleware |-> local]
    /\ middlewares' = mergeMiddlewares(globalMiddlewares, local)
    /\ fetchRequest' = Request(method)
    /\ hookIndex' = 1
    /\ phase' = "onRequest"
    /\ shortCircuitResponse' = Undefined
    /\ fetchResponse' = Undefined
    /\ currentError' = Undefined
    /\ envelope' = Undefined
    /\ hookLog' = <<>>
    /\ UNCHANGED <<globalMiddlewares, notFetch>>

FetchCall == FetchCallOf(FetchMethods, ParseModes, LocalMiddlewares)

\* runOnRequestMiddlewares: one turn of the loop over the middlewares
OnRequestHook ==
  /\ phase = "onRequest"
  /\ hookIndex <= Len(middlewares)
  /\ \E middleware \in {middlewares[hookIndex]} :
       /\ hookLog' = IF middleware.onRequest = "none" THEN hookLog
                     ELSE Append(hookLog, Invoked("onRequest", middleware.id, fetchRequest))
       /\ fetchRequest' = IF middleware.onRequest = "Request"
                          THEN [fetchRequest EXCEPT !.by = Append(@, middleware.id)]
                          ELSE fetchRequest
       /\ IF middleware.onRequest = "Response"
          THEN /\ shortCircuitResponse' = HookResponse(middleware.id)
               /\ phase' = "fetch"
               /\ hookIndex' = hookIndex
          ELSE /\ hookIndex' = hookIndex + 1
               /\ UNCHANGED <<shortCircuitResponse, phase>>
  /\ UNCHANGED <<globalMiddlewares, fetchOptions, middlewares, fetchResponse, currentError,
                 envelope, notFetch>>

\* runOnRequestMiddlewares: return { request, response: undefined }
OnRequestDone ==
  /\ phase = "onRequest"
  /\ hookIndex > Len(middlewares)
  /\ phase' = "fetch"
  /\ UNCHANGED <<globalMiddlewares, fetchOptions, middlewares, hookIndex, fetchRequest,
                 shortCircuitResponse, fetchResponse, currentError, envelope, hookLog, notFetch>>

\* resolveFetchResponse with a short-circuit Response: Effect.succeed(shortCircuitResponse)
ShortCircuit ==
  /\ phase = "fetch"
  /\ shortCircuitResponse # Undefined
  /\ fetchResponse' = shortCircuitResponse
  /\ phase' = "final"
  /\ UNCHANGED <<globalMiddlewares, fetchOptions, middlewares, hookIndex, fetchRequest,
                 shortCircuitResponse, currentError, envelope, hookLog, notFetch>>

\* resolveFetchResponse: fetch(request) resolves
FetchRespondOf(responses) ==
  \E response \in responses :
    /\ phase = "fetch"
    /\ shortCircuitResponse = Undefined
    /\ hookLog' = Append(hookLog, Invoked("fetch", "fetch", fetchRequest))
    /\ fetchResponse' = response
    /\ phase' = "final"
    /\ UNCHANGED <<globalMiddlewares, fetchOptions, middlewares, hookIndex, fetchRequest,
                   shortCircuitResponse, currentError, envelope, notFetch>>

FetchRespond == FetchRespondOf(FetchResponses)

\* resolveFetchResponse: fetch(request) rejects, recoverFromFetchError takes over
FetchReject ==
  /\ phase = "fetch"
  /\ shortCircuitResponse = Undefined
  /\ hookLog' = Append(hookLog, Invoked("fetch", "fetch", fetchRequest))
  /\ currentError' = FetchError
  /\ hookIndex' = Len(middlewares)
  /\ phase' = "onError"
  /\ UNCHANGED <<globalMiddlewares, fetchOptions, middlewares, fetchRequest,
                 shortCircuitResponse, fetchResponse, envelope, notFetch>>

\* runOnErrorMiddlewares: one turn of the loop over the reversed middlewares
OnErrorHook ==
  /\ phase = "onError"
  /\ hookIndex >= 1
  /\ \E middleware \in {middlewares[hookIndex]} :
       /\ hookLog' = IF middleware.onError = "none" THEN hookLog
                     ELSE Append(hookLog, Invoked("onError", middleware.id, currentError))
       /\ currentError' = IF middleware.onError = "Error" THEN HookError(middleware.id)
                          ELSE currentError
       /\ IF middleware.onError = "Response"
          THEN /\ fetchResponse' = HookResponse(middleware.id)
               /\ phase' = "final"
               /\ hookIndex' = hookIndex
          ELSE /\ hookIndex' = hookIndex - 1
               /\ UNCHANGED <<fetchResponse, phase>>
  /\ UNCHANGED <<globalMiddlewares, fetchOptions, middlewares, fetchRequest,
                 shortCircuitResponse, envelope, notFetch>>

\* recoverFromFetchError: Effect.fail(handled.error), the promise of the call rejects
OnErrorDone ==
  /\ phase = "onError"
  /\ hookIndex = 0
  /\ envelope' = Fail(currentError)
  /\ phase' = "rejected"
  /\ UNCHANGED <<globalMiddlewares, fetchOptions, middlewares, hookIndex, fetchRequest,
                 shortCircuitResponse, fetchResponse, currentError, hookLog, notFetch>>

\* resolveFinalResponse: the onResponse hooks run unless an onRequest hook short-circuited
ResolveFinal ==
  /\ phase = "final"
  /\ IF shortCircuitResponse = Undefined
     THEN /\ phase' = "onResponse"
          /\ hookIndex' = Len(middlewares)
     ELSE /\ phase' = "parse"
          /\ hookIndex' = hookIndex
  /\ UNCHANGED <<globalMiddlewares, fetchOptions, middlewares, fetchRequest,
                 shortCircuitResponse, fetchResponse, currentError, envelope, hookLog, notFetch>>

\* runOnResponseMiddlewares: one turn of the loop over the reversed middlewares
OnResponseHook ==
  /\ phase = "onResponse"
  /\ hookIndex >= 1
  /\ \E middleware \in {middlewares[hookIndex]} :
       /\ hookLog' = IF middleware.onResponse = "none" THEN hookLog
                     ELSE Append(hookLog, Invoked("onResponse", middleware.id, fetchResponse))
       /\ fetchResponse' = IF middleware.onResponse = "Response"
                           THEN [fetchResponse EXCEPT !.by = Append(@, middleware.id)]
                           ELSE fetchResponse
  /\ hookIndex' = hookIndex - 1
  /\ UNCHANGED <<globalMiddlewares, fetchOptions, middlewares, fetchRequest,
                 shortCircuitResponse, currentError, envelope, phase, notFetch>>

\* runOnResponseMiddlewares: return response
OnResponseDone ==
  /\ phase = "onResponse"
  /\ hookIndex = 0
  /\ phase' = "parse"
  /\ UNCHANGED <<globalMiddlewares, fetchOptions, middlewares, hookIndex, fetchRequest,
                 shortCircuitResponse, fetchResponse, currentError, envelope, hookLog, notFetch>>

\* toParsedFetchResponse(finalResponse, onRequest.request, parseAs) under Effect.runPromise
ParseResponse ==
  /\ phase = "parse"
  /\ envelope' = toParsedFetchResponse(fetchResponse, fetchRequest, fetchOptions.parseAs)
  /\ phase' = IF envelope'.channel = "success" THEN "resolved" ELSE "rejected"
  /\ UNCHANGED <<globalMiddlewares, fetchOptions, middlewares, hookIndex, fetchRequest,
                 shortCircuitResponse, fetchResponse, currentError, hookLog, notFetch>>

NextFetch ==
  \/ Use
  \/ Eject
  \/ FetchCall
  \/ OnRequestHook
  \/ OnRequestDone
  \/ ShortCircuit
  \/ FetchRespond
  \/ FetchReject
  \/ OnErrorHook
  \/ OnErrorDone
  \/ ResolveFinal
  \/ OnResponseHook
  \/ OnResponseDone
  \/ ParseResponse

SpecFetch == Init /\ [][NextFetch]_vars

(***************************************************************************)
(* The promise client under many middlewares and few responses             *)
(***************************************************************************)
MiddlewareObjects ==
  {rewriteMiddleware, authMiddleware, cacheMiddleware, sloppyMiddleware, hooklessObject}
MiddlewareResponses ==
  {Response(200, UndefinedString, PetText, TRUE, "fetch"),
   Response(404, UndefinedString, ErrorText, TRUE, "fetch")}

UseAny == UseOf(MiddlewareObjects)
EjectAny == EjectOf(MiddlewareObjects)
GetCall == FetchCallOf({"GET"}, {"json"}, LocalMiddlewares)
GetRespond == FetchRespondOf(MiddlewareResponses)

NextMiddleware ==
  \/ UseAny
  \/ EjectAny
  \/ GetCall
  \/ OnRequestHook
  \/ OnRequestDone
  \/ ShortCircuit
  \/ GetRespond
  \/ FetchReject
  \/ OnErrorHook
  \/ OnErrorDone
  \/ ResolveFinal
  \/ OnResponseHook
  \/ OnResponseDone
  \/ ParseResponse

SpecMiddleware == Init /\ [][NextMiddleware]_vars

(***************************************************************************)
(* The runtime client (create-client-runtime, create-client-middleware,    *)
(* create-client-response): the same chain with validated hooks and its    *)
(* own response envelope                                                   *)
(***************************************************************************)
\* "onRequest" in value || "onResponse" in value || "onError" in value
hasMiddlewareHook(value) ==
  value.onRequest # "none" \/ value.onResponse # "none" \/ value.onError # "none"

\* createClientMethods.use: an item without hook throws before it is pushed
RuntimeUse ==
  \E item \in MiddlewareObjects :
    /\ Len(globalMiddlewares) < MaxMiddlewares
    /\ globalMiddlewares' = IF hasMiddlewareHook(item)
                            THEN use(globalMiddlewares, <<item>>)
                            ELSE globalMiddlewares
    /\ UNCHANGED <<callVars, notFetch>>

RequestResultError ==
  ErrorObject("onRequest: must return new Request() or Response() when modifying the request")

\* applyRequestMiddleware: one turn of the loop over context.middleware
ApplyRequestHook ==
  /\ phase = "onRequest"
  /\ hookIndex <= Len(middlewares)
  /\ \E item \in {middlewares[hookIndex]} :
       /\ hookLog' = IF item.onRequest = "none" THEN hookLog
                     ELSE Append(hookLog, Invoked("onRequest", item.id, fetchRequest))
       /\ fetchRequest' = IF item.onRequest = "Request"
                          THEN [fetchRequest EXCEPT !.by = Append(@, item.id)]
                          ELSE fetchRequest
       /\ CASE item.onRequest = "Response" ->
                 /\ shortCircuitResponse' = HookResponse(item.id)
                 /\ phase' = "fetch"
                 /\ hookIndex' = hookIndex
                 /\ envelope' = envelope
            [] item.onRequest = "other" ->
                 /\ envelope' = Fail(RequestResultError)
                 /\ phase' = "rejected"
                 /\ UNCHANGED <<shortCircuitResponse, hookIndex>>
            [] OTHER ->
                 /\ hookIndex' = hookIndex + 1
                 /\ UNCHANGED <<shortCircuitResponse, phase, envelope>>
  /\ UNCHANGED <<globalMiddlewares, fetchOptions, middlewares, fetchResponse, currentError,
                 notFetch>>

\* executeFetch: applyResponseMiddleware(request, response, prepared.context)
\* runs on whatever response the request phase, fetch or onError gave
ExecuteFetchFinal ==
  /\ phase = "final"
  /\ phase' = "onResponse"
  /\ hookIndex' = Len(middlewares)
  /\ UNCHANGED <<globalMiddlewares, fetchOptions, middlewares, fetchRequest,
                 shortCircuitResponse, fetchResponse, currentError, envelope, hookLog, notFetch>>

\* response.headers.get("Transfer-Encoding")?.includes("chunked") === true
hasChunkedTransferEncoding(response) == response.chunked

isEmptyResponse(request, response) ==
  \/ response.status = 204
  \/ request.method = "HEAD"
  \/ (response.contentLength = DefinedString(<<"0">>) /\ ~hasChunkedTransferEncoding(response))

\* response.json(): the body read and parsed, the empty text being no JSON
responseJson(response) ==
  IF ~response.readable THEN Fail(ErrorObject("body stream failed"))
  ELSE LET parsed == JsonParse(response.text) IN
    IF parsed.ok THEN Succeed(parsed.val) ELSE Fail(ErrorObject("SyntaxError"))

parseSuccessData(response, parseAs) ==
  CASE parseAs = "stream" -> Succeed([t |-> "stream", v |-> response.text])
    [] parseAs = "text" ->
         LET raw == readText(response) IN
           IF raw.channel = "success" THEN Succeed(TextValue(raw.value)) ELSE raw
    [] parseAs \in {"blob", "arrayBuffer"} ->
         IF response.readable THEN Succeed([t |-> parseAs, v |-> response.text])
         ELSE Fail(ErrorObject("body stream failed"))
    [] OTHER ->
         IF ~response.contentLength.present
         THEN LET raw == readText(response) IN
                IF raw.channel = "success" THEN parseJsonText(raw.value) ELSE raw
         ELSE responseJson(response)

\* the parsed body, or the raw text when it is not JSON
parseErrorData(response) ==
  LET raw == readText(response) IN
    IF raw.channel # "success" THEN raw
    ELSE LET parsed == JsonParse(raw.value) IN
      IF parsed.ok THEN Succeed(parsed.val) ELSE Succeed(TextValue(raw.value))

createResponseEnvelope(request, response, parseAs) ==
  IF isEmptyResponse(request, response)
  THEN IF ResponseOk(response)
       THEN Succeed([data |-> Undefined, response |-> response])
       ELSE Succeed([error |-> Undefined, response |-> response])
  ELSE IF ResponseOk(response)
  THEN LET data == parseSuccessData(response, parseAs) IN
         IF data.channel = "success"
         THEN Succeed([data |-> data.value, response |-> response]) ELSE data
  ELSE LET error == parseErrorData(response) IN
         IF error.channel = "success"
         THEN Succeed([error |-> error.value, response |-> response]) ELSE error

\* createCoreFetch: createResponseEnvelope(execution.request, execution.response, parseAs)
RuntimeEnvelope ==
  /\ phase = "parse"
  /\ envelope' = createResponseEnvelope(fetchRequest, fetchResponse, fetchOptions.parseAs)
  /\ phase' = IF envelope'.channel = "success" THEN "resolved" ELSE "rejected"
  /\ UNCHANGED <<globalMiddlewares, fetchOptions, middlewares, hookIndex, fetchRequest,
                 shortCircuitResponse, fetchResponse, currentError, hookLog, notFetch>>

\* what fetch resolves with under the runtime client
RuntimeResponses ==
  {Response(200, UndefinedString, PetText, TRUE, "fetch"),
   Response(404, UndefinedString, HtmlText, TRUE, "fetch"),
   Response(200, DefinedString(<<"0">>), EmptyText, TRUE, "fetch"),
   Chunked(Response(200, DefinedString(<<"0">>), PetText, TRUE, "fetch")),
   Chunked(Response(404, DefinedString(<<"0">>), HtmlText, TRUE, "fetch"))}

RuntimeRespond == FetchRespondOf(RuntimeResponses)

NextRuntime ==
  \/ RuntimeUse
  \/ EjectAny
  \/ GetCall
  \/ ApplyRequestHook
  \/ OnRequestDone
  \/ ShortCircuit
  \/ RuntimeRespond
  \/ FetchReject
  \/ OnErrorHook
  \/ OnErrorDone
  \/ ExecuteFetchFinal
  \/ OnResponseHook
  \/ OnResponseDone
  \/ RuntimeEnvelope

SpecRuntime == Init /\ [][NextRuntime]_vars

(***************************************************************************)
(* use / eject calls on the promise client, with the calls made kept       *)
(***************************************************************************)
MaxControls == 4        \* use / eject calls made on a client

notControl == <<executorVars, typeVars, registryVars, fiberVars, effectVars, callVars>>

ControlItems == {rewriteMiddleware, cacheMiddleware}
Control(name, item) == [name |-> name, item |-> item]

\* client.use(middleware)
UseCall ==
  \E middleware \in ControlItems :
    /\ Len(controls) < MaxControls
    /\ globalMiddlewares' = use(globalMiddlewares, <<middleware>>)
    /\ controls' = Append(controls, Control("use", middleware))
    /\ UNCHANGED notControl

\* client.eject(middleware), whether the middleware is registered or not
EjectCall ==
  \E middleware \in ControlItems :
    /\ Len(controls) < MaxControls
    /\ globalMiddlewares' = eject(globalMiddlewares, <<middleware>>)
    /\ controls' = Append(controls, Control("eject", middleware))
    /\ UNCHANGED notControl

NextControls ==
  \/ UseCall
  \/ EjectCall
  \/ GetCall
  \/ OnRequestHook
  \/ OnRequestDone
  \/ ShortCircuit
  \/ GetRespond
  \/ FetchReject
  \/ OnErrorHook
  \/ OnErrorDone
  \/ ResolveFinal
  \/ OnResponseHook
  \/ OnResponseDone
  \/ ParseResponse

SpecControls == Init /\ [][NextControls]_vars

(***************************************************************************)
(* Is2xx applied to status keys                                            *)
(***************************************************************************)
\* the HTTP status codes a schema can declare as keys of its responses
StatusKeys == 100..MaxStatusKey

InitIs2xx ==
  /\ pc = "idle"
  /\ op = "none"
  /\ httpResponse = NoHttpResponse
  /\ thrown = NotThrown
  /\ rawResponse = NoResponse
  /\ result = NoResult
  /\ steps = <<>>
  /\ typeStatus \in StatusKeys
  /\ typeVariant = "unresolved"
  /\ defaultDispatchers = UndefinedMap
  /\ registered = <<>>
  /\ client = NoClient
  /\ call = NoCall
  /\ fibers = NoFibers
  /\ exposed = NoResult
  /\ InitFetch

\* SuccessVariants / HttpErrorVariants filter a variant of status S by Is2xx<S>
ResolveVariant ==
  /\ typeVariant = "unresolved"
  /\ typeVariant' = IF Is2xx(typeStatus) THEN "SuccessVariants" ELSE "HttpErrorVariants"
  /\ UNCHANGED <<typeStatus, notTypes>>

NextIs2xx == ResolveVariant

SpecIs2xx == InitIs2xx /\ [][NextIs2xx]_vars

(***************************************************************************)
(* Vocabulary of the properties                                            *)
(***************************************************************************)
\* statuses the petstore schema declares per operation
DeclaredStatuses(o) ==
  CASE o = "listPets" -> {200, 500}
    [] o = "createPet" -> {201, 400, 500}
    [] o = "getPet" -> {200, 404, 500}
    [] o = "deletePet" -> {204, 404, 500}
    [] OTHER -> {}

\* declared statuses that carry an application/json body (all but 204)
JsonStatuses(o) == DeclaredStatuses(o) \ {204}

InRange2xx(s) == 200 <= s /\ s <= 299

\* the decoder registered for (operation, status), applied to a parsed value
DecoderFor(o, s, body, parsed) ==
  CASE o = "listPets" /\ s = 200 -> decodelistPets_200(s, JsonType, body, parsed)
    [] o = "listPets" /\ s = 500 -> decodelistPets_500(s, JsonType, body, parsed)
    [] o = "createPet" /\ s = 201 -> decodecreatePet_201(s, JsonType, body, parsed)
    [] o = "createPet" /\ s = 400 -> decodecreatePet_400(s, JsonType, body, parsed)
    [] o = "createPet" /\ s = 500 -> decodecreatePet_500(s, JsonType, body, parsed)
    [] o = "getPet" /\ s = 200 -> decodegetPet_200(s, JsonType, body, parsed)
    [] o = "getPet" /\ s = 404 -> decodegetPet_404(s, JsonType, body, parsed)
    [] o = "getPet" /\ s = 500 -> decodegetPet_500(s, JsonType, body, parsed)
    [] o = "deletePet" /\ s = 404 -> decodedeletePet_404(s, JsonType, body, parsed)
    [] o = "deletePet" /\ s = 500 -> decodedeletePet_500(s, JsonType, body, parsed)

\* the text is JSON and the decoder of (o, s) accepts its value
Decodes(o, s, text) ==
  JsonParse(text).ok /\ DecoderFor(o, s, text, JsonParse(text).val).channel = "success"

\* the request reached the dispatcher and finished
Dispatched == pc = "done" /\ \E i \in DOMAIN steps : steps[i] = "dispatcher"

RanStep(name) == \E i \in DOMAIN steps : steps[i] = name

\* how many times a step ran in a request
TimesRan(ss, name) == Cardinality({i \in DOMAIN ss : ss[i] = name})

\* header value up to the first ";"
RECURSIVE UpToSemicolon(_)
UpToSemicolon(v) ==
  IF v = <<>> \/ Head(v) = ";" THEN <<>> ELSE <<Head(v)>> \o UpToSemicolon(Tail(v))

\* content type of a response: its content-type header up to the first ";",
\* undefined when the header is absent
ContentTypeOf(headers) ==
  IF "content-type" \in DOMAIN headers
  THEN DefinedString(UpToSemicolon(headers["content-type"]))
  ELSE UndefinedString

CarriesJson(headers) == ContentTypeOf(headers) = DefinedString(<<JsonType>>)

\* the response carries a content type declared for its status
CarriesDeclaredType(o, response) ==
  IF response.status = 204 /\ o = "deletePet" THEN TRUE ELSE CarriesJson(response.headers)

ExpectedRecord(s, body) == [status |-> s, contentType |-> JsonType, body |-> body]

(***************************************************************************)
(* C1                                                                      *)
(***************************************************************************)
\* C1 (as stated): for every dispatcher and every declared status S, a response
\* with status S and a content type declared for S is classified as a Success
\* record when S is 2xx and as an HttpError record otherwise, never as a
\* boundary error.
C1_DeclaredNeverBoundary ==
  (Dispatched /\ rawResponse.status \in DeclaredStatuses(op)
     /\ CarriesDeclaredType(op, rawResponse))
  => IF InRange2xx(rawResponse.status)
     THEN result.channel = "success" /\ TagOf(result.value) = "Success"
     ELSE result.channel = "error" /\ TagOf(result.value) = "HttpError"

\* C1 (amended): for every dispatcher and every declared status S, a response
\* with status S, a content type declared for S and, when S declares a JSON
\* body, a text that parses as JSON and that the decoder of S accepts, is
\* classified as the Success record {S, application/json, decoded body} when S
\* is 2xx and as the HttpError record otherwise; the bodiless 204 needs no text.
C1_DeclaredDecodableNeverBoundary ==
  (Dispatched /\ rawResponse.status \in DeclaredStatuses(op)
     /\ CarriesDeclaredType(op, rawResponse)
     /\ (rawResponse.status \in JsonStatuses(op)
           => Decodes(op, rawResponse.status, rawResponse.text)))
  => IF InRange2xx(rawResponse.status)
     THEN /\ result.channel = "success"
          /\ TagOf(result.value) = "Success"
          /\ result.value.status = rawResponse.status
          /\ rawResponse.status \in JsonStatuses(op)
               => result.value = ExpectedRecord(rawResponse.status, JsonParse(rawResponse.text).val)
     ELSE /\ result.channel = "error"
          /\ TagOf(result.value) = "HttpError"
          /\ result.value.status = rawResponse.status
          /\ result.value.contentType = JsonType
          /\ result.value.body = JsonParse(rawResponse.text).val

\* a declared non-2xx status with a decodable JSON body became an HttpError
C1_Witness ==
  /\ Dispatched
  /\ op = "createPet"
  /\ rawResponse.status = 400
  /\ rawResponse.headers = [n \in {"content-type"} |-> <<JsonType>>]
  /\ rawResponse.text = ErrorText
  /\ TagOf(result.value) = "HttpError"
  /\ result.channel = "error"

(***************************************************************************)
(* C2                                                                      *)
(***************************************************************************)
\* C2: for every dispatcher and every status not declared for its operation,
\* the outcome is UnexpectedStatus{status, body: raw text} on the error
\* channel, whatever the content type and the text; nothing is parsed or
\* decoded and no Success or HttpError record of a declared status is built.
C2_UndeclaredStatusIsUnexpected ==
  (Dispatched /\ rawResponse.status \notin DeclaredStatuses(op))
  => /\ result.channel = "error"
     /\ result.value = [_tag |-> "UnexpectedStatus", status |-> rawResponse.status,
                        body |-> rawResponse.text]
     /\ ~RanStep("parseJSON")
     /\ ~RanStep("decoder")

\* listPets answered 404 (declared for getPet, not for listPets) with a valid
\* JSON error body
C2_Witness ==
  /\ Dispatched
  /\ op = "listPets"
  /\ rawResponse.status = 404
  /\ CarriesJson(rawResponse.headers)
  /\ rawResponse.text = ErrorText
  /\ TagOf(result.value) = "UnexpectedStatus"

(***************************************************************************)
(* C3                                                                      *)
(***************************************************************************)
\* C3: for every declared status S with a declared JSON body and every
\* response whose content type C is not application/json, the outcome is
\* UnexpectedContentType{status: S, expected: [application/json], actual: C,
\* body: raw text}, and the body is neither parsed nor decoded.
C3_UndeclaredContentTypeIsUnexpected ==
  (Dispatched /\ rawResponse.status \in JsonStatuses(op) /\ ~CarriesJson(rawResponse.headers))
  => /\ result.channel = "error"
     /\ result.value = [_tag |-> "UnexpectedContentType", status |-> rawResponse.status,
                        expected |-> <<JsonType>>,
                        actual |-> ContentTypeOf(rawResponse.headers),
                        body |-> rawResponse.text]
     /\ ~RanStep("parseJSON")
     /\ ~RanStep("decoder")

(***************************************************************************)
(* C4                                                                      *)
(***************************************************************************)
\* C4: the executor returns the dispatcher's outcome unchanged and split by
\* channel: a Success record only on the success channel, HttpError records
\* and boundary errors only on the error channel, and a declared non-2xx
\* status never on the success channel.
C4_ChannelSplit ==
  pc = "done"
  => /\ result.channel \in {"success", "error"}
     /\ result.channel = "success" <=> TagOf(result.value) = "Success"
     /\ Dispatched => result = Dispatch(op, rawResponse).exit
     /\ (Dispatched /\ rawResponse.status \in DeclaredStatuses(op)
           /\ ~InRange2xx(rawResponse.status))
        => result.channel = "error"
     /\ result.channel = "success" => InRange2xx(result.value.status)

\* getPet answered a declared 404 with a decodable body: the HttpError record
\* is on the error channel
C4_Witness ==
  /\ Dispatched
  /\ op = "getPet"
  /\ rawResponse.status = 404
  /\ rawResponse.text = ErrorText
  /\ result.channel = "error"
  /\ TagOf(result.value) = "HttpError"
  /\ result.value.body = JsonParse(ErrorText).val

(***************************************************************************)
(* C5                                                                      *)
(***************************************************************************)
\* C5: for the bodiless status 204 of deletePet the outcome is always the
\* record {status: 204, contentType: "none", body: undefined} on the success
\* channel, whatever the raw text; no JSON parse and no decoder is attempted.
C5_NoContentIsBodiless ==
  (Dispatched /\ op = "deletePet" /\ rawResponse.status = 204)
  => /\ result.channel = "success"
     /\ result.value = [status |-> 204, contentType |-> "none", body |-> Undefined]
     /\ ~RanStep("parseJSON")
     /\ ~RanStep("decoder")

\* a 204 whose raw text is non-empty garbage was dispatched by deletePet
C5_Witness ==
  /\ Dispatched
  /\ op = "deletePet"
  /\ rawResponse.status = 204
  /\ rawResponse.text = HtmlText
  /\ result.channel = "success"
  /\ result.value.contentType = "none"

(***************************************************************************)
(* C6                                                                      *)
(***************************************************************************)
\* C6: for every declared status with a JSON body, a response that carries
\* application/json and whose text is not valid JSON yields ParseError with
\* the status, the content type and the unmodified raw text as body, and the
\* decoder is not invoked.
C6_MalformedJsonIsParseError ==
  (Dispatched /\ rawResponse.status \in JsonStatuses(op) /\ CarriesJson(rawResponse.headers)
     /\ ~JsonParse(rawResponse.text).ok)
  => /\ result.channel = "error"
     /\ TagOf(result.value) = "ParseError"
     /\ result.value.status = rawResponse.status
     /\ result.value.contentType = JsonType
     /\ result.value.body = rawResponse.text
     /\ RanStep("parseJSON")
     /\ ~RanStep("decoder")

\* "{not valid" sent with application/json for a declared status
C6_Witness ==
  /\ Dispatched
  /\ op = "createPet"
  /\ rawResponse.status = 201
  /\ rawResponse.headers = [n \in {"content-type"} |-> <<JsonType>>]
  /\ rawResponse.text = NotValidText
  /\ TagOf(result.value) = "ParseError"
  /\ result.value.body = NotValidText

(***************************************************************************)
(* C7                                                                      *)
(***************************************************************************)
\* C7: when the text parses as JSON and the decoder registered for
\* (operation, status) rejects the parsed value, the outcome is exactly the
\* DecodeError that decoder produced, on the error channel: never a Success
\* or HttpError record and never a thrown exception.
C7_DecoderRejectionPropagates ==
  (Dispatched /\ rawResponse.status \in JsonStatuses(op) /\ CarriesJson(rawResponse.headers)
     /\ JsonParse(rawResponse.text).ok
     /\ ~Decodes(op, rawResponse.status, rawResponse.text))
  => /\ result = DecoderFor(op, rawResponse.status, rawResponse.text,
                            JsonParse(rawResponse.text).val)
     /\ result.channel = "error"
     /\ TagOf(result.value) = "DecodeError"
     /\ RanStep("decoder")

\* a pet without its required name answered getPet's 200
C7_Witness ==
  /\ Dispatched
  /\ op = "getPet"
  /\ rawResponse.status = 200
  /\ CarriesJson(rawResponse.headers)
  /\ rawResponse.text = MissingNameText
  /\ TagOf(result.value) = "DecodeError"
  /\ result.value.body = MissingNameText

(***************************************************************************)
(* C8                                                                      *)
(***************************************************************************)
\* C8: the content type a dispatcher matches against the declared content
\* types, and reports as `actual` in UnexpectedContentType, is the header
\* value up to the first ";" (undefined when absent): the response is
\* treated as application/json exactly when that truncated value is
\* application/json.
C8_ContentTypeIsHeaderUpToSemicolon ==
  (Dispatched /\ rawResponse.status \in JsonStatuses(op))
  => /\ RanStep("parseJSON") <=> CarriesJson(rawResponse.headers)
     /\ TagOf(result.value) = "UnexpectedContentType"
          => result.value.actual = ContentTypeOf(rawResponse.headers)

(***************************************************************************)
(* C9                                                                      *)
(***************************************************************************)
\* C9: a status is classified as success if and only if 200 <= status <= 299,
\* whatever the code: no list of known codes is consulted.
C9_SuccessIffIn200To299 ==
  typeVariant # "unresolved"
  => (typeVariant = "SuccessVariants" <=> InRange2xx(typeStatus))

\* the non-standard status 250 was filed under the success variants
C9_Witness ==
  /\ typeStatus = 250
  /\ typeVariant = "SuccessVariants"

(***************************************************************************)
(* C10                                                                     *)
(***************************************************************************)
\* C10: for every RawResponse the dispatcher's classification is defined and ends with
\* exactly one tagged outcome - a Success record, an HttpError record,
\* UnexpectedStatus, UnexpectedContentType, ParseError or DecodeError -
\* delivered as a returned value on the success or error channel; it never
\* throws.
C10_DispatchIsTotalAndNeverThrows ==
  /\ pc = "received"
     => LET d == Dispatch(op, rawResponse) IN
          /\ d.exit.channel \in {"success", "error"}
          /\ TagOf(d.exit.value) \in {"Success", "HttpError", "UnexpectedStatus",
                                      "UnexpectedContentType", "ParseError", "DecodeError"}
  /\ Dispatched
     => /\ result.channel \in {"success", "error"}
        /\ TagOf(result.value) \in {"Success", "HttpError", "UnexpectedStatus",
                                    "UnexpectedContentType", "ParseError", "DecodeError"}

\* an empty text without content-type header on a declared status ended as a
\* returned UnexpectedContentType
C10_Witness ==
  /\ Dispatched
  /\ rawResponse.headers = NoHeaders
  /\ rawResponse.text = EmptyText
  /\ rawResponse.status = 500
  /\ result.channel = "error"
  /\ TagOf(result.value) = "UnexpectedContentType"

(***************************************************************************)
(* C11                                                                     *)
(***************************************************************************)
\* C11: if the transport call (client.execute, or reading the text) throws or
\* rejects, executeRequest fails with TransportError whose error is the
\* cause itself when it is an Error and an Error made of it otherwise; no
\* RawResponse is built and the dispatcher does not run for that request.
C11_TransportFailureShortCircuits ==
  (pc = "done" /\ thrown # NotThrown)
  => /\ result.channel = "error"
     /\ TagOf(result.value) = "TransportError"
     /\ DOMAIN result.value = {"_tag", "error"}
     /\ result.value.error.kind = "Error"
     /\ result.value.error.message = thrown.message
     /\ thrown.kind = "Error" => result.value.error = thrown
     /\ ~RanStep("dispatcher")
     /\ ~RanStep("parseJSON")
     /\ ~RanStep("decoder")
     /\ rawResponse = NoResponse

\* client.execute rejected with a bare string: it is wrapped in an Error and
\* nothing was dispatched
C11_Witness ==
  /\ pc = "done"
  /\ thrown = ThrownValue("timeout")
  /\ httpResponse = NoHttpResponse
  /\ result = Fail([_tag |-> "TransportError", error |-> ErrorObject("timeout")])
  /\ steps = <<"mapError">>

(***************************************************************************)
(* C12                                                                     *)
(***************************************************************************)
\* C12: when the transport succeeds, the RawResponse is built exactly once
\* from the transport's response (its status, its headers as a Headers
\* object, the text read),
\* the dispatcher is invoked exactly once, after that, with that RawResponse,
\* and from the moment it is built to the end of the request the RawResponse
\* is not changed.
C12_DispatchedExactlyOnce ==
  [][/\ TimesRan(steps', "asRawResponse") <= 1
     /\ TimesRan(steps', "dispatcher") <= 1
     /\ (pc' = "received")
        => /\ TimesRan(steps', "asRawResponse") = 1
           /\ TimesRan(steps', "dispatcher") = 0
           /\ rawResponse'.status = httpResponse'.status
           /\ DOMAIN rawResponse'.headers = DOMAIN httpResponse'.headers
           /\ rawResponse'.headers = toNativeHeaders(httpResponse'.headers)
           /\ rawResponse'.text \in Texts
     /\ (pc' = "done" /\ thrown' = NotThrown)
        => /\ TimesRan(steps', "asRawResponse") = 1
           /\ TimesRan(steps', "dispatcher") = 1
           /\ result' = Dispatch(op', rawResponse').exit
     /\ (pc = "received") => rawResponse' = rawResponse
    ]_vars

\* a request whose transport succeeded finished with one RawResponse and one
\* dispatcher run whose parse failed
C12_Witness ==
  /\ pc = "done"
  /\ thrown = NotThrown
  /\ rawResponse.text = TrailingCommaText
  /\ rawResponse.status = httpResponse.status
  /\ steps = <<"execute", "asRawResponse", "dispatcher", "parseJSON">>

(***************************************************************************)
(* C13                                                                     *)
(***************************************************************************)
\* C13: TransportError is produced only when the transport call failed before
\* any status code was received: once the transport has delivered a response
\* with a status the outcome is never TransportError, and no dispatcher
\* emits TransportError.
C13_TransportErrorOnlyBeforeStatus ==
  /\ (pc = "done" /\ RanStep("execute")) => TagOf(result.value) # "TransportError"
  /\ (pc = "received") => TagOf(Dispatch(op, rawResponse).exit.value) # "TransportError"

(***************************************************************************)
(* C14                                                                     *)
(***************************************************************************)
\* C14: createClient called without a dispatcher map while no map is
\* registered throws the configuration error "Default dispatchers are not
\* registered...": the call yields no client and no dispatcher map, and no
\* request is sent.
C14_UnregisteredCreateClientThrows ==
  [][/\ (client' # client /\ ~client'.explicit /\ ~defaultDispatchers.defined)
        => /\ client'.state = "threw"
           /\ client'.error = NotRegistered
           /\ client'.dispatchers = EmptyMap
     /\ (client'.state = "threw")
        => /\ ~client'.explicit
           /\ pc' = "idle"
           /\ op' = "none"
           /\ call' = NoCall
           /\ steps' = <<>>
           /\ result' = NoResult
    ]_vars

\* createClient(options) threw before anything was registered
C14_Witness ==
  /\ client.state = "threw"
  /\ client.error = NotRegistered
  /\ registered = <<>>
  /\ ~defaultDispatchers.defined
  /\ pc = "idle"

(***************************************************************************)
(* C15                                                                     *)
(***************************************************************************)
\* operationId of each (path, method) of the petstore schema
OperationOf(c) ==
  CASE c = [path |-> "/pets", method |-> "get"] -> "listPets"
    [] c = [path |-> "/pets", method |-> "post"] -> "createPet"
    [] c = [path |-> "/pets/{petId}", method |-> "get"] -> "getPet"
    [] c = [path |-> "/pets/{petId}", method |-> "delete"] -> "deletePet"

\* C15: the generated map has an entry for every (path, method) of the
\* petstore schema and it is the operation's own dispatcher; a call on a
\* client created without a map from that registry carries that dispatcher
\* and, when the transport answers, ends with that dispatcher's outcome.
C15_RegistryRoutesEveryOperation ==
  /\ \A c \in SchemaCalls :
       /\ c.path \in DOMAIN dispatchersByPath
       /\ c.method \in DOMAIN dispatchersByPath[c.path]
       /\ dispatchersByPath[c.path][c.method] = OperationOf(c)
  /\ (client.state = "created" /\ ~client.explicit /\ client.dispatchers = dispatchersByPath
        /\ call # NoCall)
     => /\ call \in SchemaCalls
        /\ op = OperationOf(call)
        /\ pc \in {"sent", "responded", "received", "done"}
        /\ result.channel # "defect"
        /\ (pc = "done" /\ thrown = NotThrown)
           => result = Dispatch(OperationOf(call), rawResponse).exit

\* DELETE /pets/{petId} on an auto-dispatching client was classified by
\* dispatcherdeletePet
C15_Witness ==
  /\ client.state = "created"
  /\ ~client.explicit
  /\ client.dispatchers = dispatchersByPath
  /\ call = [path |-> "/pets/{petId}", method |-> "delete"]
  /\ pc = "done"
  /\ rawResponse.status = 204
  /\ result = Succeed([status |-> 204, contentType |-> "none", body |-> Undefined])

(***************************************************************************)
(* C16                                                                     *)
(***************************************************************************)
\* C16: a call of registerDefaultDispatchers with the map that is already
\* registered leaves the registry as it is, and a client created without a
\* map afterwards resolves the map of the latest registration.
C16_RegisterIsIdempotent ==
  [][/\ (Len(registered') = Len(registered) + 1
         /\ defaultDispatchers = DefinedMap(registered'[Len(registered')]))
        => defaultDispatchers' = defaultDispatchers
     /\ (client' # client /\ client'.state = "created" /\ ~client'.explicit)
        => /\ registered' # <<>>
           /\ client'.dispatchers = registered'[Len(registered')]
    ]_vars

\* the generated map was registered twice and a client created without a map
\* then resolved it and classified a call
C16_Witness ==
  /\ registered = <<dispatchersByPath, dispatchersByPath>>
  /\ defaultDispatchers = DefinedMap(dispatchersByPath)
  /\ client.state = "created"
  /\ ~client.explicit
  /\ client.dispatchers = dispatchersByPath
  /\ pc = "done"
  /\ op = "listPets"

(***************************************************************************)
(* C17                                                                     *)
(***************************************************************************)
\* C17: however the invocations of one dispatcher interleave, each finished
\* invocation has the outcome the dispatcher gives for its own RawResponse
\* alone (its status, content-type header and text), and invocations of the
\* same RawResponse have the same outcome.
C17_DispatchIsStateless ==
  /\ \A i \in DOMAIN fibers :
       fibers[i].pc = "done" => fibers[i].exit = Dispatch(op, fibers[i].response).exit
  /\ \A i, j \in DOMAIN fibers :
       (fibers[i].pc = "done" /\ fibers[j].pc = "done"
          /\ fibers[i].response = fibers[j].response)
       => fibers[i].exit = fibers[j].exit

\* the second invocation ran to its ParseError while the first, on another
\* response, was between its parse and its decode
C17_Witness ==
  /\ fibers # NoFibers
  /\ op = "getPet"
  /\ fibers[1].pc = "parsed"
  /\ fibers[1].text = PetText
  /\ fibers[2].pc = "done"
  /\ fibers[2].text = NotValidText
  /\ TagOf(fibers[2].exit.value) = "ParseError"

(***************************************************************************)
(* C18                                                                     *)
(***************************************************************************)
BoundaryTags ==
  {"TransportError", "UnexpectedStatus", "UnexpectedContentType", "ParseError", "DecodeError"}

\* C18: for every finished call of a createClientEffect client, an outcome
\* tagged HttpError (a non-2xx status) is delivered unchanged as a value on
\* the success channel, a 2xx Success stays on the success channel, and
\* every boundary error stays, unchanged, on the error channel.
C18_HttpErrorsAreValues ==
  (pc = "done" /\ exposed # NoResult)
  => /\ TagOf(result.value) \in {"Success", "HttpError"} \cup BoundaryTags
     /\ TagOf(result.value) = "HttpError"
          => /\ exposed = Succeed(result.value)
             /\ ~InRange2xx(exposed.value.status)
     /\ TagOf(result.value) = "Success"
          => /\ exposed = result
             /\ exposed.channel = "success"
             /\ InRange2xx(exposed.value.status)
     /\ TagOf(result.value) \in BoundaryTags
          => /\ exposed = result
             /\ exposed.channel = "error"

\* a 401 with a JSON error body came back as an HttpError value
C18_Witness ==
  /\ pc = "done"
  /\ op = "universal"
  /\ rawResponse.status = 401
  /\ rawResponse.text = ErrorText
  /\ result.channel = "error"
  /\ exposed.channel = "success"
  /\ exposed.value = [_tag |-> "HttpError", status |-> 401, contentType |-> JsonType,
                       body |-> JsonParse(ErrorText).val]

\* the body of a 2xx response can be turned into data in the requested mode
BodyParses(response, parseAs) ==
  parseAs # "json" \/ response.text = EmptyText \/ JsonParse(response.text).ok

\* C19: every call of the promise client that obtained a Response with a
\* readable body settles by response.ok: a 2xx response whose body parses
\* resolves to an envelope with exactly the keys data and response, and a
\* non-2xx response always resolves, never rejects, to an envelope with
\* exactly the keys error and response.
C19_EnvelopeFollowsResponseOk ==
  (Settled /\ fetchResponse # Undefined /\ fetchResponse.readable)
  => IF ResponseOk(fetchResponse)
     THEN (isNoContentResponse(fetchResponse, fetchRequest)
             \/ BodyParses(fetchResponse, fetchOptions.parseAs))
          => /\ phase = "resolved"
             /\ DOMAIN envelope.value = {"data", "response"}
             /\ envelope.value.response = fetchResponse
     ELSE /\ phase = "resolved"
          /\ DOMAIN envelope.value = {"error", "response"}
          /\ envelope.value.response = fetchResponse

\* the onRequest hook of the middleware at position i returned a Response
ShortCircuitedAt(i) ==
  /\ i \in DOMAIN middlewares
  /\ middlewares[i].onRequest = "Response"
  /\ \A j \in 1..(i - 1) : middlewares[j].onRequest # "Response"
  /\ shortCircuitResponse = HookResponse(middlewares[i].id)

\* C20: once an onRequest hook has returned a Response, fetch is never
\* invoked for the call, no onRequest hook of a later middleware and no
\* onResponse hook runs, and the call settles with that very Response as the
\* response of its envelope.
C20_OnRequestResponseShortCircuits ==
  shortCircuitResponse # Undefined
  => /\ \E i \in DOMAIN middlewares :
          /\ ShortCircuitedAt(i)
          /\ \A k \in DOMAIN hookLog :
               /\ hookLog[k].hook = "onRequest"
               /\ \E j \in 1..i : hookLog[k].id = middlewares[j].id
          /\ hookLog[Len(hookLog)].id = middlewares[i].id
     /\ phase \in {"fetch", "final", "onResponse", "parse", "resolved", "rejected"}
     /\ phase \in {"final", "onResponse", "parse", "resolved", "rejected"}
          => fetchResponse = shortCircuitResponse
     /\ Settled
          => /\ phase = "resolved"
             /\ envelope.value.response = shortCircuitResponse

\* the elements of a list that have the hook, and a list back to front
WithHook(list, hook) == LET Has(m) == m[hook] # "none" IN SelectSeq(list, Has)
Reversed(list) == [i \in 1..Len(list) |-> list[Len(list) + 1 - i]]
\* ids of the first n elements of a list whose hook returns the given kind of value
ReturnedBefore(list, n, hook, kind) ==
  LET Gives(m) == m[hook] = kind
      givers == SelectSeq(SubSeq(list, 1, n), Gives)
  IN [i \in 1..Len(givers) |-> givers[i].id]

\* the hook invocations of a call whose transport responded, as the claim orders them
OnRequestOrder ==
  LET hs == WithHook(middlewares, "onRequest") IN
    [i \in 1..Len(hs) |->
       Invoked("onRequest", hs[i].id,
               [method |-> fetchOptions.method,
                by |-> ReturnedBefore(hs, i - 1, "onRequest", "Request")])]
OnResponseOrder ==
  LET hs == Reversed(WithHook(middlewares, "onResponse")) IN
    [i \in 1..Len(hs) |->
       Invoked("onResponse", hs[i].id,
               [fetchResponse EXCEPT !.by = ReturnedBefore(hs, i - 1, "onResponse", "Response")])]

\* the transport has responded and every hook of the call has run
TransportResponded ==
  /\ phase \in {"parse", "resolved", "rejected"}
  /\ shortCircuitResponse = Undefined
  /\ fetchResponse # Undefined
  /\ fetchResponse.from = "fetch"

\* C21: a call applies the global middlewares followed by the per-request
\* ones; when its transport has responded, its onRequest hooks have run in
\* that order, each given the Request of the latest earlier hook that
\* returned one, then fetch with the last Request, then its onResponse hooks
\* in the reverse order, each given the Response of the latest earlier hook
\* that returned one.
C21_HooksRunInOrder ==
  [][/\ (phase # "onRequest" /\ phase' = "onRequest")
         => middlewares' = globalMiddlewares \o fetchOptions'.middleware
     /\ TransportResponded'
         => hookLog' = OnRequestOrder'
                        \o <<Invoked("fetch", "fetch", fetchRequest')>>
                        \o OnResponseOrder']_vars

\* two global middlewares and a per-request one, all with both hooks, around
\* a transport that responded
C21_Witness ==
  /\ TransportResponded
  /\ phase = "resolved"
  /\ middlewares = <<authMiddleware, rewriteMiddleware, loggerMiddleware>>
  /\ fetchRequest.by = <<"auth", "rewrite">>
  /\ fetchResponse.by = <<"rewrite", "auth">>
  /\ Len(hookLog) = 7

\* the onError hooks of the call in reverse registration order, the position
\* of the first of them that returns a Response (0: none does), and the hooks
\* visited: those up to that position
OnErrorHooks == Reversed(WithHook(middlewares, "onError"))
FirstRecovery ==
  LET hs == OnErrorHooks
      at == {i \in DOMAIN hs : hs[i].onError = "Response"}
  IN IF at = {} THEN 0 ELSE CHOOSE i \in at : \A j \in at : i <= j
\* the error handed on after the first n hooks: the last Error one of them
\* returned, or the error of the transport
ErrorAfter(n) ==
  LET givers == ReturnedBefore(OnErrorHooks, n, "onError", "Error")
  IN IF givers = <<>> THEN FetchError ELSE HookError(givers[Len(givers)])
OnErrorOrder ==
  LET n == IF FirstRecovery = 0 THEN Len(OnErrorHooks) ELSE FirstRecovery IN
    [i \in 1..n |-> Invoked("onError", OnErrorHooks[i].id, ErrorAfter(i - 1))]
OnErrorLog == LET IsOnError(entry) == entry.hook = "onError" IN SelectSeq(hookLog, IsOnError)

\* the transport call of the settled call failed
TransportFailed == Settled /\ currentError # Undefined

\* C22: when the transport call of a call fails, its onError hooks are
\* visited in reverse registration order up to the first one that returns a
\* Response; the call resolves exactly when there is such a hook, and then
\* that Response is the response of the envelope; otherwise the call rejects
\* with the last Error a hook returned, or else with the transport's error.
C22_OnErrorRecoversOnlyByResponse ==
  TransportFailed
  => /\ OnErrorLog = OnErrorOrder
     /\ phase = "resolved" <=> FirstRecovery # 0
     /\ FirstRecovery # 0
          => /\ fetchResponse.from = OnErrorHooks[FirstRecovery].id
             /\ phase = "resolved" => envelope.value.response = fetchResponse
     /\ FirstRecovery = 0
          => /\ phase = "rejected"
             /\ envelope = Fail(ErrorAfter(Len(OnErrorHooks)))

\* a list without the first occurrence of an item
RECURSIVE WithoutFirst(_, _)
WithoutFirst(list, item) ==
  IF list = <<>> THEN <<>>
  ELSE IF Head(list) = item THEN Tail(list)
  ELSE <<Head(list)>> \o WithoutFirst(Tail(list), item)

\* the middlewares added by the use calls of a history and not removed by a
\* later eject call, in the order they were added
RECURSIVE Registered(_)
Registered(history) ==
  IF history = <<>> THEN <<>>
  ELSE LET before == Registered(SubSeq(history, 1, Len(history) - 1))
           last == history[Len(history)]
       IN IF last.name = "use" THEN Append(before, last.item)
          ELSE WithoutFirst(before, last.item)

IsIn(list, item) == \E i \in DOMAIN list : list[i] = item

\* C23: after any sequence of use and eject calls the client's global
\* middlewares are those added by use and not removed by a later eject, in
\* the order they were added; a call started then applies exactly these,
\* followed by its per-request middlewares; and an eject call for a
\* middleware that is not registered leaves the list as it was.
C23_UseEjectKeepRegistrationOrder ==
  [][/\ globalMiddlewares' = Registered(controls')
     /\ (phase # "onRequest" /\ phase' = "onRequest")
         => middlewares' = Registered(controls) \o fetchOptions'.middleware
     /\ (controls' # controls
          /\ controls'[Len(controls')].name = "eject"
          /\ ~IsIn(globalMiddlewares, controls'[Len(controls')].item))
         => globalMiddlewares' = globalMiddlewares]_vars

\* two middlewares were added, the first was ejected, ejected once more while
\* absent, and a call started afterwards applies the remaining one
C23_Witness ==
  /\ controls = <<Control("use", rewriteMiddleware), Control("use", cacheMiddleware),
                  Control("eject", rewriteMiddleware), Control("eject", rewriteMiddleware)>>
  /\ globalMiddlewares = <<cacheMiddleware>>
  /\ phase = "resolved"
  /\ middlewares = <<cacheMiddleware>> \o fetchOptions.middleware
  /\ hookLog[1] = Invoked("onRequest", "cache", Request("GET"))

\* the call has started and has not settled
InFlight == phase \notin {"idle", "resolved", "rejected"}

\* C24: while a call is in flight, a use or eject call changes nothing of
\* the call, the list of middlewares the call applies stays the one built
\* when it started, and every hook that runs is the hook of the middleware
\* the call has reached in that list.
C24_MiddlewaresFixedAtStart ==
  [][InFlight
     => /\ globalMiddlewares' # globalMiddlewares => callVars' = callVars
        /\ InFlight' => middlewares' = middlewares
        /\ (hookLog' # hookLog /\ hookLog'[Len(hookLog')].hook # "fetch")
            => /\ hookIndex \in DOMAIN middlewares
               /\ hookLog'[Len(hookLog')].id = middlewares[hookIndex].id]_vars

\* a call that started with auth and rewrite has run all their hooks, and
\* none of cache, while rewrite and cache became the client's middlewares
C24_Witness ==
  /\ InFlight
  /\ phase = "parse"
  /\ TransportResponded
  /\ middlewares = <<authMiddleware, rewriteMiddleware>>
  /\ globalMiddlewares = <<rewriteMiddleware, cacheMiddleware>>
  /\ hookLog = OnRequestOrder \o <<Invoked("fetch", "fetch", fetchRequest)>> \o OnResponseOrder
  /\ Len(hookLog) = 5

\* the entry of a dispatcher map for a call, "undefined" when it has none
EntryOf(dispatchers, c) ==
  IF c.path \in DOMAIN dispatchers /\ c.method \in DOMAIN dispatchers[c.path]
  THEN dispatchers[c.path][c.method] ELSE "undefined"

\* C25: a client created without a map takes the registry's map of that
\* moment; a later registerDefaultDispatchers call leaves every created
\* client as it is, and each call of a client carries the dispatcher of the
\* map the client was created with, whatever the registry holds by then.
C25_RegistryResolvedAtCreateClient ==
  [][/\ (client' # client /\ client'.state = "created" /\ ~client'.explicit)
         => /\ defaultDispatchers.defined
            /\ client'.dispatchers = defaultDispatchers.map
     /\ registered' # registered => client' = client
     /\ (pc' = "sent" /\ pc # "sent")
         => /\ client' = client
            /\ op' = EntryOf(client.dispatchers, call')]_vars

\* a client created from the generated map still posts with createPet after
\* a map without POST /pets was registered
C25_Witness ==
  /\ registered = <<dispatchersByPath, listOnlyDispatchers>>
  /\ defaultDispatchers = DefinedMap(listOnlyDispatchers)
  /\ client.state = "created"
  /\ ~client.explicit
  /\ client.dispatchers = dispatchersByPath
  /\ call = [path |-> "/pets", method |-> "post"]
  /\ op = "createPet"
  /\ pc = "done"
  /\ result.channel = "success"

\* the map of the client has no entry for the call in progress
MissingEntry ==
  /\ client.state = "created"
  /\ call # NoCall
  /\ EntryOf(client.dispatchers, call) = "undefined"

\* C26: a call whose (path, method) has no entry in the client's dispatcher
\* map never reaches the transport, and when it is over it has failed.
C26_MissingEntryFailsBeforeTransport ==
  MissingEntry
  => /\ ~RanStep("execute")
     /\ pc \notin {"responded", "received"}
     /\ pc = "done" => result.channel \in {"error", "defect"}

\* the settled call obtained a non-2xx Response with content: a readable,
\* non-empty body that is not valid JSON
UnparsedErrorBody ==
  /\ Settled
  /\ fetchResponse # Undefined
  /\ ~ResponseOk(fetchResponse)
  /\ ~isNoContentResponse(fetchResponse, fetchRequest)
  /\ fetchResponse.readable
  /\ fetchResponse.text # EmptyText
  /\ ~JsonParse(fetchResponse.text).ok

\* C27: a call that obtained a non-2xx Response whose non-empty body is not
\* valid JSON resolves, and the error of its envelope is the raw body text.
C27_ErrorBodyFallsBackToRawText ==
  UnparsedErrorBody
  => /\ phase = "resolved"
     /\ envelope.value = [error |-> TextValue(fetchResponse.text), response |-> fetchResponse]

\* the settled call obtained a Response that has no content by its status,
\* by the method of the request or by its Content-Length header
ObtainedNoContent ==
  /\ Settled
  /\ fetchResponse # Undefined
  /\ \/ fetchResponse.status = 204
     \/ fetchRequest.method = "HEAD"
     \/ fetchResponse.contentLength = DefinedString(<<"0">>)

\* C28: a call that obtained a Response with status 204, or for a HEAD
\* request, or with Content-Length "0" resolves to {data: undefined,
\* response} when response.ok and to {error: undefined, response}
\* otherwise, whatever the body holds and even when the body cannot be read.
C28_NoContentIsUndefined ==
  ObtainedNoContent
  => /\ phase = "resolved"
     /\ envelope.value = IF ResponseOk(fetchResponse)
                          THEN [data |-> Undefined, response |-> fetchResponse]
                          ELSE [error |-> Undefined, response |-> fetchResponse]


\* the middleware objects whose onRequest hook returns a value that is
\* neither undefined, a Request nor a Response
ReturnsOther == {m.id : m \in {o \in MiddlewareObjects : o.onRequest = "other"}}

\* an onRequest hook of the call has returned such a value
OnRequestReturnedOther ==
  \E i \in 1..Len(hookLog) :
    hookLog[i].hook = "onRequest" /\ hookLog[i].id \in ReturnsOther

OnRequestMustReturn ==
  ErrorObject("onRequest: must return new Request() or Response() when modifying the request")

\* C29: once an onRequest hook has returned a value that is neither
\* undefined, a Request nor a Response, the transport is not invoked and the
\* call, when it settles, is rejected with the error "onRequest: must return
\* new Request() or Response() when modifying the request".
C29_OnRequestOtherValueFails ==
  OnRequestReturnedOther
  => /\ \A i \in 1..Len(hookLog) : hookLog[i].hook # "fetch"
     /\ Settled => (phase = "rejected" /\ envelope = Fail(OnRequestMustReturn))

\* the middleware objects that have none of the three hooks
HasNoHook(middleware) ==
  /\ middleware.onRequest = "none"
  /\ middleware.onResponse = "none"
  /\ middleware.onError = "none"

\* C30: use(...) rejects an argument that has none of onRequest, onResponse
\* and onError, so the middleware list of the client never holds such an
\* object.
C30_UseRejectsHooklessObject ==
  \A i \in 1..Len(globalMiddlewares) : ~HasNoHook(globalMiddlewares[i])

====
